---- MODULE Spec2Model ----
(***************************************************************************)
(* Koddi health check: the check-dependency orchestrator (CLI main of      *)
(* koddi_healthcheck.py and run_checks of app.py) and the per-check        *)
(* response classifiers of both front ends.                                *)
(*                                                                         *)
(* Text is modelled as a sequence of pieces (strings); an f-string is the  *)
(* concatenation of its literal pieces and its formatted values.  The      *)
(* source's non-ASCII characters are written in ASCII: the em dash U+2014  *)
(* as "--", the bullet U+2022 as "*", the warning sign U+26A0 U+FE0F as    *)
(* "(!)".  An Optional value is a sequence of length 0 (None) or 1.        *)
(* A JSON object is a function whose DOMAIN is the set of keys present.    *)
(***************************************************************************)
EXTENDS Integers, Sequences, FiniteSets, TLC

VARIABLES
    front,        \* "cli" (koddi_healthcheck.main) or "web" (app.run_checks)
    cfg,          \* the run's configuration (arguments of main / run_checks)
    pc,           \* position in main / run_checks
    client,       \* the httpx.Client of the with block: "unopened", "open", "closed"
    results,      \* results: list[CheckResult]
    token,        \* token: Optional[str]
    has_failure,  \* has_failure of main (CLI only)
    requests,     \* the calls made on the client, in order
    inflight,     \* Optional check number whose request has not returned yet
    responses,    \* what each call returned or raised, in order
    overall,      \* Optional "overall" of the JSON document
    exit_code     \* Optional argument of sys.exit (CLI only)

vars == <<front, cfg, pc, client, results, token, has_failure, requests,
          inflight, responses, overall, exit_code>>

----------------------------------------------------------------------------
(* Bounds of the inputs *)

\* longest list (campaigns, entity_registrations, active_bidders, ...) in a response
MaxItems == 6
\* largest "total" field in a response
MaxTotal == 2
\* longest result list handed to results_to_json / json_output on its own
MaxResults == 7

----------------------------------------------------------------------------
(* Values *)

None == <<>>
Some(v) == <<v>>

EmptyObj == [k \in {} |-> ""]
Opt(k, present, v) == IF present THEN (k :> v) ELSE EmptyObj

\* dict.get(k, default)
Get(d, k, default) == IF k \in DOMAIN d THEN d[k] ELSE default

PASS == "pass"
WARN == "warn"
FAIL == "fail"
SKIPPED == "skipped"

CheckResult(number, name, status, details) ==
    [number |-> number, name |-> name, status |-> status, details |-> details]

Digits == <<"0", "1", "2", "3", "4", "5", "6", "7", "8", "9">>

RECURSIVE NatStr(_)
NatStr(n) == IF n < 10 THEN <<Digits[n + 1]>>
             ELSE NatStr(n \div 10) \o <<Digits[(n % 10) + 1]>>

\* str(n) of an int, as f"{n}" formats it
Str(n) == IF n < 0 THEN <<"-">> \o NatStr(0 - n) ELSE NatStr(n)

\* f"{d.get(k, 'N/A')}" for a text field and for an integer field
FmtText(d, k) == IF k \in DOMAIN d THEN <<d[k]>> ELSE <<"N/A">>
FmtInt(d, k) == IF k \in DOMAIN d THEN Str(d[k]) ELSE <<"N/A">>
FmtBool(d, k) == IF k \in DOMAIN d THEN (IF d[k] THEN <<"True">> ELSE <<"False">>)
                 ELSE <<"N/A">>

\* "\n".join(lines), lines a sequence of piece sequences
RECURSIVE Join(_)
Join(lines) == IF Len(lines) = 0 THEN <<>>
               ELSE IF Len(lines) = 1 THEN lines[1]
               ELSE lines[1] \o <<"\n">> \o Join(Tail(lines))

\* xs[:n]
Take(xs, n) == SubSeq(xs, 1, IF Len(xs) < n THEN Len(xs) ELSE n)

\* s.rstrip("/") on a piece sequence whose "/" characters are pieces of their own
RECURSIVE rstrip(_)
rstrip(s) == IF Len(s) > 0 /\ s[Len(s)] = "/" THEN rstrip(SubSeq(s, 1, Len(s) - 1))
             ELSE s

Contains(details, piece) == \E i \in DOMAIN details : details[i] = piece

----------------------------------------------------------------------------
(* The outcome of one call on the client: an exception raised by the call, *)
(* or a response with its HTTP status code and its body.  resp.json()      *)
(* raises on a body that is not JSON; data.get raises on a JSON body that  *)
(* is not an object.                                                       *)

Timeout == [exc |-> "TimeoutException"]
ConnectError == [exc |-> "ConnectError"]
OtherError(msg) == [exc |-> "Exception", msg |-> msg]
Response(code, body) == [exc |-> "none", status_code |-> code, body |-> body]

NotJson == [json |-> "invalid"]
JsonArray == [json |-> "array"]
JsonObject(data) == [json |-> "object", data |-> data]

\* the exception raised by `data = resp.json()` and the first `data.get(...)`
JsonRaises(body) == body.json # "object"
JsonErr(body) == IF body.json = "invalid"
                 THEN "Expecting value: line 1 column 1 (char 0)"
                 ELSE "'list' object has no attribute 'get'"

\* mutant: `if token is not None`, which takes the empty string for a token
Truthy_not_none(tok) == tok # None

\* bool(token) of an Optional[str]
Truthy(tok) == tok # None /\ tok[1] # ""

make_request(method, url, tok, json_body) ==
    LET headers == IF Truthy(tok) THEN [Authorization |-> tok[1]] ELSE EmptyObj
    IN  IF method = "GET"
        THEN [method |-> "GET", url |-> url, headers |-> headers, json |-> None]
        ELSE [method |-> "POST", url |-> url, headers |-> headers, json |-> json_body]

----------------------------------------------------------------------------
(* koddi_healthcheck.py: the seven checks.  X_request is the call a check  *)
(* makes, X its result for the outcome of that call.                       *)

check_auth_request(base_url, email, password, member_group_id) ==
    make_request("POST", base_url \o <<"/session/login">>, None,
                 Some([email |-> email, password |-> password,
                       member_group_id |-> member_group_id]))

\* mutant: a denied login is reported in the generic "Error" format
check_auth_generic(o) ==
    LET name == "Authentication" IN
    IF o.exc = "TimeoutException"
    THEN <<CheckResult(1, name, FAIL, <<"Request timed out">>), None>>
    ELSE IF o.exc = "ConnectError"
    THEN <<CheckResult(1, name, FAIL, <<"Connection error", " -- cannot reach ", "API">>), None>>
    ELSE IF o.exc # "none"
    THEN <<CheckResult(1, name, FAIL, <<"Unexpected error: ", o.msg>>), None>>
    ELSE IF JsonRaises(o.body)
    THEN <<CheckResult(1, name, FAIL, <<"Unexpected error: ", JsonErr(o.body)>>), None>>
    ELSE
    LET data == o.body.data IN
    IF Get(data, "status", "") = "success"
    THEN LET tk == Get(Get(data, "result", EmptyObj), "token", EmptyObj)
             tok == IF "id_token" \in DOMAIN tk THEN Some(tk["id_token"]) ELSE None
         IN  IF Truthy(tok)
             THEN <<CheckResult(1, name, PASS, <<"Authenticated successfully">>), tok>>
             ELSE <<CheckResult(1, name, FAIL, <<"No id_token in response">>), None>>
    ELSE LET error_code == Get(data, "error_code", "unknown")
             error_msg == Get(data, "message", Get(data, "error", "unknown error"))
         IN  <<CheckResult(1, name, FAIL,
                           <<"Error ", error_code, ": ", error_msg>>),
               None>>

\* mutant: a login without id_token is a warning
check_auth_warns(o) ==
    LET name == "Authentication" IN
    IF o.exc = "TimeoutException"
    THEN <<CheckResult(1, name, FAIL, <<"Request timed out">>), None>>
    ELSE IF o.exc = "ConnectError"
    THEN <<CheckResult(1, name, FAIL, <<"Connection error", " -- cannot reach ", "API">>), None>>
    ELSE IF o.exc # "none"
    THEN <<CheckResult(1, name, FAIL, <<"Unexpected error: ", o.msg>>), None>>
    ELSE IF JsonRaises(o.body)
    THEN <<CheckResult(1, name, FAIL, <<"Unexpected error: ", JsonErr(o.body)>>), None>>
    ELSE
    LET data == o.body.data IN
    IF Get(data, "status", "") = "success"
    THEN LET tk == Get(Get(data, "result", EmptyObj), "token", EmptyObj)
             tok == IF "id_token" \in DOMAIN tk THEN Some(tk["id_token"]) ELSE None
         IN  IF Truthy(tok)
             THEN <<CheckResult(1, name, PASS, <<"Authenticated successfully">>), tok>>
             ELSE <<CheckResult(1, name, WARN, <<"No id_token in response">>), None>>
    ELSE LET error_code == Get(data, "error_code", "unknown")
             error_msg == Get(data, "message", Get(data, "error", "unknown error"))
         IN  <<CheckResult(1, name, FAIL,
                           <<"Login failed -- code ", error_code, ": ", error_msg>>),
               None>>

\* mutant: the login response goes through resp.raise_for_status()
check_auth_raise_for_status(o) ==
    LET name == "Authentication" IN
    IF o.exc = "TimeoutException"
    THEN <<CheckResult(1, name, FAIL, <<"Request timed out">>), None>>
    ELSE IF o.exc = "ConnectError"
    THEN <<CheckResult(1, name, FAIL, <<"Connection error", " -- cannot reach ", "API">>), None>>
    ELSE IF o.exc # "none"
    THEN <<CheckResult(1, name, FAIL, <<"Unexpected error: ", o.msg>>), None>>
    ELSE IF o.status_code # 200
    THEN <<CheckResult(1, name, FAIL, <<"Unexpected error: ", "Server error">>), None>>
    ELSE IF JsonRaises(o.body)
    THEN <<CheckResult(1, name, FAIL, <<"Unexpected error: ", JsonErr(o.body)>>), None>>
    ELSE
    LET data == o.body.data IN
    IF Get(data, "status", "") = "success"
    THEN LET tk == Get(Get(data, "result", EmptyObj), "token", EmptyObj)
             tok == IF "id_token" \in DOMAIN tk THEN Some(tk["id_token"]) ELSE None
         IN  IF Truthy(tok)
             THEN <<CheckResult(1, name, PASS, <<"Authenticated successfully">>), tok>>
             ELSE <<CheckResult(1, name, FAIL, <<"No id_token in response">>), None>>
    ELSE LET error_code == Get(data, "error_code", "unknown")
             error_msg == Get(data, "message", Get(data, "error", "unknown error"))
         IN  <<CheckResult(1, name, FAIL,
                           <<"Login failed -- code ", error_code, ": ", error_msg>>),
               None>>

check_auth(o) ==
    LET name == "Authentication" IN
    IF o.exc = "TimeoutException"
    THEN <<CheckResult(1, name, FAIL, <<"Request timed out">>), None>>
    ELSE IF o.exc = "ConnectError"
    THEN <<CheckResult(1, name, FAIL, <<"Connection error", " -- cannot reach ", "API">>), None>>
    ELSE IF o.exc # "none"
    THEN <<CheckResult(1, name, FAIL, <<"Unexpected error: ", o.msg>>), None>>
    ELSE IF JsonRaises(o.body)
    THEN <<CheckResult(1, name, FAIL, <<"Unexpected error: ", JsonErr(o.body)>>), None>>
    ELSE
    LET data == o.body.data IN
    IF Get(data, "status", "") = "success"
    THEN LET tk == Get(Get(data, "result", EmptyObj), "token", EmptyObj)
             tok == IF "id_token" \in DOMAIN tk THEN Some(tk["id_token"]) ELSE None
         IN  IF Truthy(tok)
             THEN <<CheckResult(1, name, PASS, <<"Authenticated successfully">>), tok>>
             ELSE <<CheckResult(1, name, FAIL, <<"No id_token in response">>), None>>
    ELSE LET error_code == Get(data, "error_code", "unknown")
             error_msg == Get(data, "message", Get(data, "error", "unknown error"))
         IN  <<CheckResult(1, name, FAIL,
                           <<"Login failed -- code ", error_code, ": ", error_msg>>),
               None>>

check_advertiser_request(base_url, tok, member_group_id, advertiser_id) ==
    make_request("GET",
                 base_url \o <<"/member_groups/">> \o Str(member_group_id)
                          \o <<"/advertisers/">> \o Str(advertiser_id),
                 tok, None)

\* mutant: Check 2 has no except clause for ConnectError, the catch-all takes it
check_advertiser_no_connect(o) ==
    LET name == "Advertiser Exists" IN
    IF o.exc = "TimeoutException"
    THEN CheckResult(2, name, FAIL, <<"Request timed out">>)
    ELSE IF o.exc = "ConnectError"
    THEN CheckResult(2, name, FAIL, <<"Unexpected error: ", "All connection attempts failed">>)
    ELSE IF o.exc # "none"
    THEN CheckResult(2, name, FAIL, <<"Unexpected error: ", o.msg>>)
    ELSE IF JsonRaises(o.body)
    THEN CheckResult(2, name, FAIL, <<"Unexpected error: ", JsonErr(o.body)>>)
    ELSE
    LET data == o.body.data IN
    IF Get(data, "status", "") = "success"
    THEN LET result == Get(data, "result", EmptyObj)
             details == <<"Found: ">> \o FmtText(result, "name")
                        \o <<" | status=">> \o FmtText(result, "status")
                        \o <<" | entities=">> \o FmtInt(result, "entity_count")
                        \o <<" | currency=">> \o FmtText(result, "currency_code")
         IN  CheckResult(2, name, PASS, details)
    ELSE LET error_code == Get(data, "error_code", "unknown")
             error_msg == Get(data, "message", Get(data, "error", "unknown error"))
         IN  CheckResult(2, name, FAIL, <<"Error ", error_code, ": ", error_msg>>)

check_advertiser(o) ==
    LET name == "Advertiser Exists" IN
    IF o.exc = "TimeoutException"
    THEN CheckResult(2, name, FAIL, <<"Request timed out">>)
    ELSE IF o.exc = "ConnectError"
    THEN CheckResult(2, name, FAIL, <<"Connection error">>)
    ELSE IF o.exc # "none"
    THEN CheckResult(2, name, FAIL, <<"Unexpected error: ", o.msg>>)
    ELSE IF JsonRaises(o.body)
    THEN CheckResult(2, name, FAIL, <<"Unexpected error: ", JsonErr(o.body)>>)
    ELSE
    LET data == o.body.data IN
    IF Get(data, "status", "") = "success"
    THEN LET result == Get(data, "result", EmptyObj)
             details == <<"Found: ">> \o FmtText(result, "name")
                        \o <<" | status=">> \o FmtText(result, "status")
                        \o <<" | entities=">> \o FmtInt(result, "entity_count")
                        \o <<" | currency=">> \o FmtText(result, "currency_code")
         IN  CheckResult(2, name, PASS, details)
    ELSE LET error_code == Get(data, "error_code", "unknown")
             error_msg == Get(data, "message", Get(data, "error", "unknown error"))
         IN  CheckResult(2, name, FAIL, <<"Error ", error_code, ": ", error_msg>>)

check_campaigns_request(base_url, tok, member_group_id, advertiser_id) ==
    make_request("POST",
                 base_url \o <<"/member_groups/">> \o Str(member_group_id)
                          \o <<"/advertisers/">> \o Str(advertiser_id)
                          \o <<"/campaigns_report">>,
                 tok, Some([pagination |-> [start |-> 0]]))

\* mutant: an absent total defaults to 0, not to the number of listed campaigns
check_campaigns_default0(o) ==
    LET name == "Campaigns Report" IN
    IF o.exc = "TimeoutException"
    THEN CheckResult(3, name, FAIL, <<"Request timed out">>)
    ELSE IF o.exc = "ConnectError"
    THEN CheckResult(3, name, FAIL, <<"Connection error">>)
    ELSE IF o.exc # "none"
    THEN CheckResult(3, name, FAIL, <<"Unexpected error: ", o.msg>>)
    ELSE IF JsonRaises(o.body)
    THEN CheckResult(3, name, FAIL, <<"Unexpected error: ", JsonErr(o.body)>>)
    ELSE
    LET data == o.body.data IN
    IF Get(data, "status", "") # "success"
    THEN LET error_code == Get(data, "error_code", "unknown")
             error_msg == Get(data, "message", Get(data, "error", "unknown error"))
         IN  CheckResult(3, name, FAIL, <<"Error ", error_code, ": ", error_msg>>)
    ELSE
    LET result == Get(data, "result", EmptyObj)
        campaigns == Get(result, "campaigns", <<>>)
        total == Get(result, "total", 0)
        line(c) == <<"  * ">> \o FmtText(c, "name")
                   \o <<" | status=">> \o FmtText(c, "status")
                   \o <<" | always_on=">> \o FmtBool(c, "always_on")
                   \o <<" | budget=">> \o FmtText(c, "budget_type")
                   \o <<"/">> \o FmtInt(c, "budget_amount")
        lines == <<(<<"Found ">> \o Str(total) \o <<" campaign(s)">>)>>
                 \o [i \in 1..Len(campaigns) |-> line(campaigns[i])]
    IN  IF total = 0
        THEN CheckResult(3, name, WARN,
                         <<"(!)  ", "Zero campaigns found for this advertiser">>)
        ELSE CheckResult(3, name, PASS, Join(lines))

check_campaigns(o) ==
    LET name == "Campaigns Report" IN
    IF o.exc = "TimeoutException"
    THEN CheckResult(3, name, FAIL, <<"Request timed out">>)
    ELSE IF o.exc = "ConnectError"
    THEN CheckResult(3, name, FAIL, <<"Connection error">>)
    ELSE IF o.exc # "none"
    THEN CheckResult(3, name, FAIL, <<"Unexpected error: ", o.msg>>)
    ELSE IF JsonRaises(o.body)
    THEN CheckResult(3, name, FAIL, <<"Unexpected error: ", JsonErr(o.body)>>)
    ELSE
    LET data == o.body.data IN
    IF Get(data, "status", "") # "success"
    THEN LET error_code == Get(data, "error_code", "unknown")
             error_msg == Get(data, "message", Get(data, "error", "unknown error"))
         IN  CheckResult(3, name, FAIL, <<"Error ", error_code, ": ", error_msg>>)
    ELSE
    LET result == Get(data, "result", EmptyObj)
        campaigns == Get(result, "campaigns", <<>>)
        total == Get(result, "total", Len(campaigns))
        line(c) == <<"  * ">> \o FmtText(c, "name")
                   \o <<" | status=">> \o FmtText(c, "status")
                   \o <<" | always_on=">> \o FmtBool(c, "always_on")
                   \o <<" | budget=">> \o FmtText(c, "budget_type")
                   \o <<"/">> \o FmtInt(c, "budget_amount")
        lines == <<(<<"Found ">> \o Str(total) \o <<" campaign(s)">>)>>
                 \o [i \in 1..Len(campaigns) |-> line(campaigns[i])]
    IN  IF total = 0
        THEN CheckResult(3, name, WARN,
                         <<"(!)  ", "Zero campaigns found for this advertiser">>)
        ELSE CheckResult(3, name, PASS, Join(lines))

check_entity_failures_request(base_url, tok, member_group_id, advertiser_id) ==
    make_request("POST",
                 base_url \o <<"/member_groups/">> \o Str(member_group_id)
                          \o <<"/advertisers/">> \o Str(advertiser_id)
                          \o <<"/entity_registrations/failed/report">>,
                 tok, Some([pagination |-> [count |-> 50, start |-> 0]]))

\* mutant: the slice is [:6]
check_entity_failures_first6(o) ==
    LET name == "Entity Registration Failures" IN
    IF o.exc = "TimeoutException"
    THEN CheckResult(4, name, FAIL, <<"Request timed out">>)
    ELSE IF o.exc = "ConnectError"
    THEN CheckResult(4, name, FAIL, <<"Connection error">>)
    ELSE IF o.exc # "none"
    THEN CheckResult(4, name, FAIL, <<"Unexpected error: ", o.msg>>)
    ELSE IF JsonRaises(o.body)
    THEN CheckResult(4, name, FAIL, <<"Unexpected error: ", JsonErr(o.body)>>)
    ELSE
    LET data == o.body.data IN
    IF Get(data, "status", "") # "success"
    THEN LET error_code == Get(data, "error_code", "unknown")
             error_msg == Get(data, "message", Get(data, "error", "unknown error"))
         IN  CheckResult(4, name, FAIL, <<"Error ", error_code, ": ", error_msg>>)
    ELSE
    LET result == Get(data, "result", EmptyObj)
        total == Get(result, "total", 0)
        failures == Take(Get(result, "entity_registrations", <<>>), 6)
        line(f) == <<"  * [">> \o FmtText(f, "error_code") \o <<"] ">>
                   \o FmtText(f, "error_message")
        lines == <<(<<"(!)  ">> \o Str(total)
                    \o <<" registration failure(s) found. First ">>
                    \o Str(Len(failures)) \o <<":">>)>>
                 \o [i \in 1..Len(failures) |-> line(failures[i])]
    IN  IF total = 0
        THEN CheckResult(4, name, PASS, <<"No entity registration failures">>)
        ELSE CheckResult(4, name, WARN, Join(lines))

check_entity_failures(o) ==
    LET name == "Entity Registration Failures" IN
    IF o.exc = "TimeoutException"
    THEN CheckResult(4, name, FAIL, <<"Request timed out">>)
    ELSE IF o.exc = "ConnectError"
    THEN CheckResult(4, name, FAIL, <<"Connection error">>)
    ELSE IF o.exc # "none"
    THEN CheckResult(4, name, FAIL, <<"Unexpected error: ", o.msg>>)
    ELSE IF JsonRaises(o.body)
    THEN CheckResult(4, name, FAIL, <<"Unexpected error: ", JsonErr(o.body)>>)
    ELSE
    LET data == o.body.data IN
    IF Get(data, "status", "") # "success"
    THEN LET error_code == Get(data, "error_code", "unknown")
             error_msg == Get(data, "message", Get(data, "error", "unknown error"))
         IN  CheckResult(4, name, FAIL, <<"Error ", error_code, ": ", error_msg>>)
    ELSE
    LET result == Get(data, "result", EmptyObj)
        total == Get(result, "total", 0)
        failures == Take(Get(result, "entity_registrations", <<>>), 5)
        line(f) == <<"  * [">> \o FmtText(f, "error_code") \o <<"] ">>
                   \o FmtText(f, "error_message")
        lines == <<(<<"(!)  ">> \o Str(total)
                    \o <<" registration failure(s) found. First ">>
                    \o Str(Len(failures)) \o <<":">>)>>
                 \o [i \in 1..Len(failures) |-> line(failures[i])]
    IN  IF total = 0
        THEN CheckResult(4, name, PASS, <<"No entity registration failures">>)
        ELSE CheckResult(4, name, WARN, Join(lines))

check_active_bidders_request(base_url, tok, member_group_id) ==
    make_request("GET",
                 base_url \o <<"/member_groups/">> \o Str(member_group_id)
                          \o <<"/active_bidders">>,
                 tok, None)

\* mutant: the error field is read before the message field
check_active_bidders_swapped(o) ==
    LET name == "Active Bidders Cache" IN
    IF o.exc = "TimeoutException"
    THEN CheckResult(5, name, FAIL, <<"Request timed out">>)
    ELSE IF o.exc = "ConnectError"
    THEN CheckResult(5, name, FAIL, <<"Connection error">>)
    ELSE IF o.exc # "none"
    THEN CheckResult(5, name, FAIL, <<"Unexpected error: ", o.msg>>)
    ELSE IF JsonRaises(o.body)
    THEN CheckResult(5, name, FAIL, <<"Unexpected error: ", JsonErr(o.body)>>)
    ELSE
    LET data == o.body.data IN
    IF Get(data, "status", "") # "success"
    THEN LET error_code == Get(data, "error_code", "unknown")
             error_msg == Get(data, "error", Get(data, "message", "unknown error"))
         IN  CheckResult(5, name, FAIL, <<"Error ", error_code, ": ", error_msg>>)
    ELSE
    LET bidders == Get(Get(data, "result", EmptyObj), "active_bidders", <<>>) IN
    IF Len(bidders) = 0
    THEN CheckResult(5, name, WARN,
                     <<"(!)  ", "Active bidders list is empty -- no ad groups are active">>)
    ELSE CheckResult(5, name, PASS, Str(Len(bidders)) \o <<" active bidder(s) in cache">>)

\* mutant: the count is kept in a module-level counter that grows with every classification made
check_active_bidders_counting(o) ==
    LET name == "Active Bidders Cache" IN
    IF o.exc = "TimeoutException"
    THEN CheckResult(5, name, FAIL, <<"Request timed out">>)
    ELSE IF o.exc = "ConnectError"
    THEN CheckResult(5, name, FAIL, <<"Connection error">>)
    ELSE IF o.exc # "none"
    THEN CheckResult(5, name, FAIL, <<"Unexpected error: ", o.msg>>)
    ELSE IF JsonRaises(o.body)
    THEN CheckResult(5, name, FAIL, <<"Unexpected error: ", JsonErr(o.body)>>)
    ELSE
    LET data == o.body.data IN
    IF Get(data, "status", "") # "success"
    THEN LET error_code == Get(data, "error_code", "unknown")
             error_msg == Get(data, "message", Get(data, "error", "unknown error"))
         IN  CheckResult(5, name, FAIL, <<"Error ", error_code, ": ", error_msg>>)
    ELSE
    LET bidders == Get(Get(data, "result", EmptyObj), "active_bidders", <<>>) IN
    IF Len(bidders) = 0
    THEN CheckResult(5, name, WARN,
                     <<"(!)  ", "Active bidders list is empty -- no ad groups are active">>)
    ELSE CheckResult(5, name, PASS, Str(Len(bidders) + Len(results)) \o <<" active bidder(s) in cache">>)

check_active_bidders(o) ==
    LET name == "Active Bidders Cache" IN
    IF o.exc = "TimeoutException"
    THEN CheckResult(5, name, FAIL, <<"Request timed out">>)
    ELSE IF o.exc = "ConnectError"
    THEN CheckResult(5, name, FAIL, <<"Connection error">>)
    ELSE IF o.exc # "none"
    THEN CheckResult(5, name, FAIL, <<"Unexpected error: ", o.msg>>)
    ELSE IF JsonRaises(o.body)
    THEN CheckResult(5, name, FAIL, <<"Unexpected error: ", JsonErr(o.body)>>)
    ELSE
    LET data == o.body.data IN
    IF Get(data, "status", "") # "success"
    THEN LET error_code == Get(data, "error_code", "unknown")
             error_msg == Get(data, "message", Get(data, "error", "unknown error"))
         IN  CheckResult(5, name, FAIL, <<"Error ", error_code, ": ", error_msg>>)
    ELSE
    LET bidders == Get(Get(data, "result", EmptyObj), "active_bidders", <<>>) IN
    IF Len(bidders) = 0
    THEN CheckResult(5, name, WARN,
                     <<"(!)  ", "Active bidders list is empty -- no ad groups are active">>)
    ELSE CheckResult(5, name, PASS, Str(Len(bidders)) \o <<" active bidder(s) in cache">>)

check_attributable_entities_request(base_url, tok, member_group_id) ==
    make_request("GET",
                 base_url \o <<"/member_groups/">> \o Str(member_group_id)
                          \o <<"/attributable_entities">>,
                 tok, None)

\* mutant: a list of one entity is taken for empty
check_attributable_entities_one(o) ==
    LET name == "Attributable Entities Cache" IN
    IF o.exc = "TimeoutException"
    THEN CheckResult(6, name, FAIL, <<"Request timed out">>)
    ELSE IF o.exc = "ConnectError"
    THEN CheckResult(6, name, FAIL, <<"Connection error">>)
    ELSE IF o.exc # "none"
    THEN CheckResult(6, name, FAIL, <<"Unexpected error: ", o.msg>>)
    ELSE IF JsonRaises(o.body)
    THEN CheckResult(6, name, FAIL, <<"Unexpected error: ", JsonErr(o.body)>>)
    ELSE
    LET data == o.body.data IN
    IF Get(data, "status", "") # "success"
    THEN LET error_code == Get(data, "error_code", "unknown")
             error_msg == Get(data, "message", Get(data, "error", "unknown error"))
         IN  CheckResult(6, name, FAIL, <<"Error ", error_code, ": ", error_msg>>)
    ELSE
    LET entities == Get(Get(data, "result", EmptyObj), "attributable_entities", <<>>) IN
    IF Len(entities) <= 1
    THEN CheckResult(6, name, WARN,
                     <<"(!)  ", "No attributable entities -- conversions won't attribute">>)
    ELSE CheckResult(6, name, PASS,
                     Str(Len(entities)) \o <<" attributable entit(ies) in cache">>)

check_attributable_entities(o) ==
    LET name == "Attributable Entities Cache" IN
    IF o.exc = "TimeoutException"
    THEN CheckResult(6, name, FAIL, <<"Request timed out">>)
    ELSE IF o.exc = "ConnectError"
    THEN CheckResult(6, name, FAIL, <<"Connection error">>)
    ELSE IF o.exc # "none"
    THEN CheckResult(6, name, FAIL, <<"Unexpected error: ", o.msg>>)
    ELSE IF JsonRaises(o.body)
    THEN CheckResult(6, name, FAIL, <<"Unexpected error: ", JsonErr(o.body)>>)
    ELSE
    LET data == o.body.data IN
    IF Get(data, "status", "") # "success"
    THEN LET error_code == Get(data, "error_code", "unknown")
             error_msg == Get(data, "message", Get(data, "error", "unknown error"))
         IN  CheckResult(6, name, FAIL, <<"Error ", error_code, ": ", error_msg>>)
    ELSE
    LET entities == Get(Get(data, "result", EmptyObj), "attributable_entities", <<>>) IN
    IF Len(entities) = 0
    THEN CheckResult(6, name, WARN,
                     <<"(!)  ", "No attributable entities -- conversions won't attribute">>)
    ELSE CheckResult(6, name, PASS,
                     Str(Len(entities)) \o <<" attributable entit(ies) in cache">>)

\* mutant: the auction request is made with token=token
check_winning_ads_request_token(client_name, site_id, experience_name) ==
    LET url == <<"https://", client_name, ".koddi.io/auction-engine/winning_ads">>
        body == [client_name |-> client_name, site_id |-> site_id,
                 slots_available |-> 1, max_requested |-> 1,
                 user |-> [guid |-> "healthcheck-test-user"], bidders |-> <<>>]
                @@ Opt("experience_name", experience_name # None,
                       IF experience_name # None THEN experience_name[1] ELSE "")
    IN  make_request("POST", url, token, Some(body))

check_winning_ads_request(client_name, site_id, experience_name) ==
    LET url == <<"https://", client_name, ".koddi.io/auction-engine/winning_ads">>
        body == [client_name |-> client_name, site_id |-> site_id,
                 slots_available |-> 1, max_requested |-> 1,
                 user |-> [guid |-> "healthcheck-test-user"], bidders |-> <<>>]
                @@ Opt("experience_name", experience_name # None,
                       IF experience_name # None THEN experience_name[1] ELSE "")
    IN  make_request("POST", url, None, Some(body))

\* mutant: an envelope with status "error" is a failure for Check 7 too
check_winning_ads_envelope(client_name, o) ==
    LET name == "Winning Ads (Test Auction)" IN
    IF o.exc = "TimeoutException"
    THEN CheckResult(7, name, FAIL, <<"Request timed out">>)
    ELSE IF o.exc = "ConnectError"
    THEN CheckResult(7, name, FAIL,
                     <<"Connection error", " -- cannot reach ", client_name, ".koddi.io">>)
    ELSE IF o.exc # "none"
    THEN CheckResult(7, name, FAIL, <<"Unexpected error: ", o.msg>>)
    ELSE IF o.status_code # 200
            \/ (~JsonRaises(o.body) /\ Get(o.body.data, "status", "") = "error")
    THEN CheckResult(7, name, FAIL,
                     <<"HTTP ">> \o Str(o.status_code)
                     \o <<" -- auction engine may be misconfigured or client '",
                          client_name, "' is not provisioned">>)
    ELSE IF JsonRaises(o.body)
    THEN CheckResult(7, name, FAIL, <<"Unexpected error: ", JsonErr(o.body)>>)
    ELSE
    LET data == o.body.data
        listings == Get(data, "sponsored_listings", <<>>)
        count == Len(listings)
        detail == IF count # 0
                  THEN <<"Auction responded OK -- ">> \o Str(count)
                       \o <<" sponsored listing(s) returned">>
                  ELSE <<"Auction responded OK -- 0 listings (expected with empty bidders)">>
    IN  CheckResult(7, name, PASS, detail)

check_winning_ads(client_name, o) ==
    LET name == "Winning Ads (Test Auction)" IN
    IF o.exc = "TimeoutException"
    THEN CheckResult(7, name, FAIL, <<"Request timed out">>)
    ELSE IF o.exc = "ConnectError"
    THEN CheckResult(7, name, FAIL,
                     <<"Connection error", " -- cannot reach ", client_name, ".koddi.io">>)
    ELSE IF o.exc # "none"
    THEN CheckResult(7, name, FAIL, <<"Unexpected error: ", o.msg>>)
    ELSE IF o.status_code # 200
    THEN CheckResult(7, name, FAIL,
                     <<"HTTP ">> \o Str(o.status_code)
                     \o <<" -- auction engine may be misconfigured or client '",
                          client_name, "' is not provisioned">>)
    ELSE IF JsonRaises(o.body)
    THEN CheckResult(7, name, FAIL, <<"Unexpected error: ", JsonErr(o.body)>>)
    ELSE
    LET data == o.body.data
        listings == Get(data, "sponsored_listings", <<>>)
        count == Len(listings)
        detail == IF count # 0
                  THEN <<"Auction responded OK -- ">> \o Str(count)
                       \o <<" sponsored listing(s) returned">>
                  ELSE <<"Auction responded OK -- 0 listings (expected with empty bidders)">>
    IN  CheckResult(7, name, PASS, detail)

----------------------------------------------------------------------------
(* app.py: the seven checks of the web front end.                          *)

app_make_request(method, url, tok, json_body) ==
    LET headers == IF Truthy(tok) THEN [Authorization |-> tok[1]] ELSE EmptyObj
    IN  IF method = "GET"
        THEN [method |-> "GET", url |-> url, headers |-> headers, json |-> None]
        ELSE [method |-> "POST", url |-> url, headers |-> headers, json |-> json_body]

app_check_auth_request(base_url, email, password, member_group_id) ==
    app_make_request("POST", base_url \o <<"/session/login">>, None,
                 Some([email |-> email, password |-> password,
                       member_group_id |-> member_group_id]))

app_check_auth(o) ==
    LET name == "Authentication" IN
    IF o.exc = "TimeoutException"
    THEN <<CheckResult(1, name, FAIL, <<"Request timed out">>), None>>
    ELSE IF o.exc = "ConnectError"
    THEN <<CheckResult(1, name, FAIL, <<"Connection error", " -- cannot reach ", "API">>), None>>
    ELSE IF o.exc # "none"
    THEN <<CheckResult(1, name, FAIL, <<"Unexpected error: ", o.msg>>), None>>
    ELSE IF JsonRaises(o.body)
    THEN <<CheckResult(1, name, FAIL, <<"Unexpected error: ", JsonErr(o.body)>>), None>>
    ELSE
    LET data == o.body.data IN
    IF Get(data, "status", "") = "success"
    THEN LET tk == Get(Get(data, "result", EmptyObj), "token", EmptyObj)
             tok == IF "id_token" \in DOMAIN tk THEN Some(tk["id_token"]) ELSE None
         IN  IF Truthy(tok)
             THEN <<CheckResult(1, name, PASS, <<"Authenticated successfully">>), tok>>
             ELSE <<CheckResult(1, name, FAIL, <<"No id_token in response">>), None>>
    ELSE LET error_code == Get(data, "error_code", "unknown")
             error_msg == Get(data, "message", Get(data, "error", "unknown error"))
         IN  <<CheckResult(1, name, FAIL,
                           <<"Login failed -- code ", error_code, ": ", error_msg>>),
               None>>

app_check_advertiser_request(base_url, tok, member_group_id, advertiser_id) ==
    app_make_request("GET",
                 base_url \o <<"/member_groups/">> \o Str(member_group_id)
                          \o <<"/advertisers/">> \o Str(advertiser_id),
                 tok, None)

app_check_advertiser(o) ==
    LET name == "Advertiser Exists" IN
    IF o.exc = "TimeoutException"
    THEN CheckResult(2, name, FAIL, <<"Request timed out">>)
    ELSE IF o.exc = "ConnectError"
    THEN CheckResult(2, name, FAIL, <<"Connection error">>)
    ELSE IF o.exc # "none"
    THEN CheckResult(2, name, FAIL, <<"Unexpected error: ", o.msg>>)
    ELSE IF JsonRaises(o.body)
    THEN CheckResult(2, name, FAIL, <<"Unexpected error: ", JsonErr(o.body)>>)
    ELSE
    LET data == o.body.data IN
    IF Get(data, "status", "") = "success"
    THEN LET result == Get(data, "result", EmptyObj)
             details == <<"Found: ">> \o FmtText(result, "name")
                        \o <<" | status=">> \o FmtText(result, "status")
                        \o <<" | entities=">> \o FmtInt(result, "entity_count")
                        \o <<" | currency=">> \o FmtText(result, "currency_code")
         IN  CheckResult(2, name, PASS, details)
    ELSE LET error_code == Get(data, "error_code", "unknown")
             error_msg == Get(data, "message", Get(data, "error", "unknown error"))
         IN  CheckResult(2, name, FAIL, <<"Error ", error_code, ": ", error_msg>>)

app_check_campaigns_request(base_url, tok, member_group_id, advertiser_id) ==
    app_make_request("POST",
                 base_url \o <<"/member_groups/">> \o Str(member_group_id)
                          \o <<"/advertisers/">> \o Str(advertiser_id)
                          \o <<"/campaigns_report">>,
                 tok, Some([pagination |-> [start |-> 0]]))

app_check_campaigns(o) ==
    LET name == "Campaigns Report" IN
    IF o.exc = "TimeoutException"
    THEN CheckResult(3, name, FAIL, <<"Request timed out">>)
    ELSE IF o.exc = "ConnectError"
    THEN CheckResult(3, name, FAIL, <<"Connection error">>)
    ELSE IF o.exc # "none"
    THEN CheckResult(3, name, FAIL, <<"Unexpected error: ", o.msg>>)
    ELSE IF JsonRaises(o.body)
    THEN CheckResult(3, name, FAIL, <<"Unexpected error: ", JsonErr(o.body)>>)
    ELSE
    LET data == o.body.data IN
    IF Get(data, "status", "") # "success"
    THEN LET error_code == Get(data, "error_code", "unknown")
             error_msg == Get(data, "message", Get(data, "error", "unknown error"))
         IN  CheckResult(3, name, FAIL, <<"Error ", error_code, ": ", error_msg>>)
    ELSE
    LET result == Get(data, "result", EmptyObj)
        campaigns == Get(result, "campaigns", <<>>)
        total == Get(result, "total", Len(campaigns))
        line(c) == <<"  * ">> \o FmtText(c, "name")
                   \o <<" | status=">> \o FmtText(c, "status")
                   \o <<" | always_on=">> \o FmtBool(c, "always_on")
                   \o <<" | budget=">> \o FmtText(c, "budget_type")
                   \o <<"/">> \o FmtInt(c, "budget_amount")
        lines == <<(<<"Found ">> \o Str(total) \o <<" campaign(s)">>)>>
                 \o [i \in 1..Len(campaigns) |-> line(campaigns[i])]
    IN  IF total = 0
        THEN CheckResult(3, name, WARN,
                         <<"Zero campaigns found for this advertiser">>)
        ELSE CheckResult(3, name, PASS, Join(lines))

app_check_entity_failures_request(base_url, tok, member_group_id, advertiser_id) ==
    app_make_request("POST",
                 base_url \o <<"/member_groups/">> \o Str(member_group_id)
                          \o <<"/advertisers/">> \o Str(advertiser_id)
                          \o <<"/entity_registrations/failed/report">>,
                 tok, Some([pagination |-> [count |-> 50, start |-> 0]]))

app_check_entity_failures(o) ==
    LET name == "Entity Registration Failures" IN
    IF o.exc = "TimeoutException"
    THEN CheckResult(4, name, FAIL, <<"Request timed out">>)
    ELSE IF o.exc = "ConnectError"
    THEN CheckResult(4, name, FAIL, <<"Connection error">>)
    ELSE IF o.exc # "none"
    THEN CheckResult(4, name, FAIL, <<"Unexpected error: ", o.msg>>)
    ELSE IF JsonRaises(o.body)
    THEN CheckResult(4, name, FAIL, <<"Unexpected error: ", JsonErr(o.body)>>)
    ELSE
    LET data == o.body.data IN
    IF Get(data, "status", "") # "success"
    THEN LET error_code == Get(data, "error_code", "unknown")
             error_msg == Get(data, "message", Get(data, "error", "unknown error"))
         IN  CheckResult(4, name, FAIL, <<"Error ", error_code, ": ", error_msg>>)
    ELSE
    LET result == Get(data, "result", EmptyObj)
        total == Get(result, "total", 0)
        failures == Take(Get(result, "entity_registrations", <<>>), 5)
        line(f) == <<"  * [">> \o FmtText(f, "error_code") \o <<"] ">>
                   \o FmtText(f, "error_message")
        lines == <<(Str(total)
                    \o <<" registration failure(s) found. First ">>
                    \o Str(Len(failures)) \o <<":">>)>>
                 \o [i \in 1..Len(failures) |-> line(failures[i])]
    IN  IF total = 0
        THEN CheckResult(4, name, PASS, <<"No entity registration failures">>)
        ELSE CheckResult(4, name, WARN, Join(lines))

app_check_active_bidders_request(base_url, tok, member_group_id) ==
    app_make_request("GET",
                 base_url \o <<"/member_groups/">> \o Str(member_group_id)
                          \o <<"/active_bidders">>,
                 tok, None)

app_check_active_bidders(o) ==
    LET name == "Active Bidders Cache" IN
    IF o.exc = "TimeoutException"
    THEN CheckResult(5, name, FAIL, <<"Request timed out">>)
    ELSE IF o.exc = "ConnectError"
    THEN CheckResult(5, name, FAIL, <<"Connection error">>)
    ELSE IF o.exc # "none"
    THEN CheckResult(5, name, FAIL, <<"Unexpected error: ", o.msg>>)
    ELSE IF JsonRaises(o.body)
    THEN CheckResult(5, name, FAIL, <<"Unexpected error: ", JsonErr(o.body)>>)
    ELSE
    LET data == o.body.data IN
    IF Get(data, "status", "") # "success"
    THEN LET error_code == Get(data, "error_code", "unknown")
             error_msg == Get(data, "message", Get(data, "error", "unknown error"))
         IN  CheckResult(5, name, FAIL, <<"Error ", error_code, ": ", error_msg>>)
    ELSE
    LET bidders == Get(Get(data, "result", EmptyObj), "active_bidders", <<>>) IN
    IF Len(bidders) = 0
    THEN CheckResult(5, name, WARN,
                     <<"Active bidders list is empty -- no ad groups are active">>)
    ELSE CheckResult(5, name, PASS, Str(Len(bidders)) \o <<" active bidder(s) in cache">>)

app_check_attributable_entities_request(base_url, tok, member_group_id) ==
    app_make_request("GET",
                 base_url \o <<"/member_groups/">> \o Str(member_group_id)
                          \o <<"/attributable_entities">>,
                 tok, None)

app_check_attributable_entities(o) ==
    LET name == "Attributable Entities Cache" IN
    IF o.exc = "TimeoutException"
    THEN CheckResult(6, name, FAIL, <<"Request timed out">>)
    ELSE IF o.exc = "ConnectError"
    THEN CheckResult(6, name, FAIL, <<"Connection error">>)
    ELSE IF o.exc # "none"
    THEN CheckResult(6, name, FAIL, <<"Unexpected error: ", o.msg>>)
    ELSE IF JsonRaises(o.body)
    THEN CheckResult(6, name, FAIL, <<"Unexpected error: ", JsonErr(o.body)>>)
    ELSE
    LET data == o.body.data IN
    IF Get(data, "status", "") # "success"
    THEN LET error_code == Get(data, "error_code", "unknown")
             error_msg == Get(data, "message", Get(data, "error", "unknown error"))
         IN  CheckResult(6, name, FAIL, <<"Error ", error_code, ": ", error_msg>>)
    ELSE
    LET entities == Get(Get(data, "result", EmptyObj), "attributable_entities", <<>>) IN
    IF Len(entities) = 0
    THEN CheckResult(6, name, WARN,
                     <<"No attributable entities -- conversions won't attribute">>)
    ELSE CheckResult(6, name, PASS,
                     Str(Len(entities)) \o <<" attributable entit(ies) in cache">>)

app_check_winning_ads_request(client_name, site_id, experience_name) ==
    LET url == <<"https://", client_name, ".koddi.io/auction-engine/winning_ads">>
        body == [client_name |-> client_name, site_id |-> site_id,
                 slots_available |-> 1, max_requested |-> 1,
                 user |-> [guid |-> "healthcheck-test-user"], bidders |-> <<>>]
                @@ Opt("experience_name", Truthy(experience_name),
                       IF Truthy(experience_name) THEN experience_name[1] ELSE "")
    IN  app_make_request("POST", url, None, Some(body))

app_check_winning_ads(client_name, o) ==
    LET name == "Winning Ads (Test Auction)" IN
    IF o.exc = "TimeoutException"
    THEN CheckResult(7, name, FAIL, <<"Request timed out">>)
    ELSE IF o.exc = "ConnectError"
    THEN CheckResult(7, name, FAIL,
                     <<"Connection error", " -- cannot reach ", client_name, ".koddi.io">>)
    ELSE IF o.exc # "none"
    THEN CheckResult(7, name, FAIL, <<"Unexpected error: ", o.msg>>)
    ELSE IF o.status_code # 200
    THEN CheckResult(7, name, FAIL,
                     <<"HTTP ">> \o Str(o.status_code)
                     \o <<" -- auction engine may be misconfigured or client '",
                          client_name, "' is not provisioned">>)
    ELSE IF JsonRaises(o.body)
    THEN CheckResult(7, name, FAIL, <<"Unexpected error: ", JsonErr(o.body)>>)
    ELSE
    LET data == o.body.data
        listings == Get(data, "sponsored_listings", <<>>)
        count == Len(listings)
        detail == IF count # 0
                  THEN <<"Auction responded OK -- ">> \o Str(count)
                       \o <<" sponsored listing(s) returned">>
                  ELSE <<"Auction responded OK -- 0 listings (expected with empty bidders)">>
    IN  CheckResult(7, name, PASS, detail)


----------------------------------------------------------------------------
(* Inputs: configurations and the outcomes a call can have.                *)

MemberGroupId == 1234
AdvertiserId == 5678

Configs ==
    { [email |-> "bob@company.com", password |-> "secret",
       member_group_id |-> MemberGroupId, advertiser_id |-> AdvertiserId,
       client_name |-> "myretailer", site_id |-> "homepage",
       experience_name |-> e,
       base_url |-> <<"https://", "koddi.io", "/console/v1", "/">>]
      : e \in {None, Some(""), Some("Sponsored Products")} }

\* every sequence over S of length at most n
ListsUpTo(S, n) == UNION { [1..m -> S] : m \in 0..n }

Transport == {Timeout, ConnectError, OtherError("boom")}
StatusCodes == {200, 503}
BadBodies == {NotJson, JsonArray}

ErrorEnvelopes ==
    { Opt("status", st # "", st) @@ Opt("error_code", c # "", c)
      @@ Opt("message", m # "", m) @@ Opt("error", e # "", e)
      : st \in {"", "error"}, c \in {"", "E401"},
        m \in {"", "bad credentials"}, e \in {"", "invalid request"} }

Success(result) == [status |-> "success", result |-> result]

Tokens == {"abc", "xyz"}
AuthBodies ==
    {[status |-> "success"], Success(EmptyObj), Success([token |-> EmptyObj])}
    \cup { Success([token |-> [id_token |-> t]]) : t \in Tokens \cup {""} }

Advertiser == [name |-> "Acme", status |-> "active", entity_count |-> 12,
               currency_code |-> "USD"]
AdvertiserBodies ==
    {[status |-> "success"], Success(Advertiser), Success([name |-> "Acme"])}

Campaign == [name |-> "Summer", status |-> "active", always_on |-> TRUE,
             budget_type |-> "daily", budget_amount |-> 100]
Totals == (0 - 1)..MaxTotal
CampaignBodies ==
    {[status |-> "success"]}
    \cup { Success(Opt("total", t # None, IF t # None THEN t[1] ELSE 0)
                   @@ Opt("campaigns", c # None, IF c # None THEN c[1] ELSE <<>>))
           : t \in {None} \cup {Some(n) : n \in Totals},
             c \in {None} \cup {Some(l) : l \in ListsUpTo({Campaign, EmptyObj}, MaxItems)} }

Failure == [error_code |-> "E1", error_message |-> "bad entity"]
FailureBodies ==
    {[status |-> "success"]}
    \cup { Success(Opt("total", t # None, IF t # None THEN t[1] ELSE 0)
                   @@ Opt("entity_registrations", f # None,
                          IF f # None THEN f[1] ELSE <<>>))
           : t \in {None} \cup {Some(n) : n \in Totals},
             f \in {None} \cup {Some(l) : l \in ListsUpTo({Failure, EmptyObj}, MaxItems)} }

Item == [id |-> "x"]
ListBodies(key) ==
    {[status |-> "success"], Success(EmptyObj)}
    \cup { Success(key :> l) : l \in ListsUpTo({Item}, MaxItems) }

AuctionBodies ==
    {EmptyObj, [status |-> "error"]}
    \cup { [sponsored_listings |-> l] : l \in ListsUpTo({Item}, MaxItems) }

SuccessBodies(k) ==
    CASE k = 1 -> AuthBodies
      [] k = 2 -> AdvertiserBodies
      [] k = 3 -> CampaignBodies
      [] k = 4 -> FailureBodies
      [] k = 5 -> ListBodies("active_bidders")
      [] k = 6 -> ListBodies("attributable_entities")

\* every outcome of the call of check k
Outcomes(k) ==
    Transport
    \cup { Response(code, b) : code \in StatusCodes, b \in BadBodies }
    \cup { Response(code, JsonObject(d))
           : code \in StatusCodes,
             d \in IF k = 7 THEN AuctionBodies ELSE ErrorEnvelopes \cup SuccessBodies(k) }

\* the outcomes a whole run draws from: one of each kind per check
Denied == [status |-> "error", error_code |-> "E401", message |-> "bad credentials"]
RunOutcomes(k) ==
    Transport
    \cup (IF k = 7
          THEN { Response(503, NotJson),
                 Response(200, NotJson),
                 Response(200, JsonObject([sponsored_listings |-> <<>>])),
                 Response(200, JsonObject([sponsored_listings |-> <<Item>>])) }
          ELSE { Response(200, JsonObject(Denied)) }
               \cup
               CASE k = 1 -> { Response(200, NotJson),
                               Response(200, JsonObject(Success([token |-> EmptyObj]))),
                               Response(200, JsonObject(Success([token |-> [id_token |-> "abc"]]))),
                               Response(200, JsonObject(Success([token |-> [id_token |-> "xyz"]]))) }
                 [] k = 2 -> { Response(200, JsonArray),
                               Response(200, JsonObject(Success(Advertiser))) }
                 [] k = 3 -> { Response(200, JsonObject(Success([total |-> 0, campaigns |-> <<>>]))),
                               Response(200, JsonObject(Success([total |-> 1, campaigns |-> <<Campaign>>]))) }
                 [] k = 4 -> { Response(200, JsonObject(Success([total |-> 0, entity_registrations |-> <<>>]))),
                               Response(200, JsonObject(Success([total |-> 1, entity_registrations |-> <<Failure>>]))) }
                 [] k = 5 -> { Response(200, JsonObject(Success([active_bidders |-> <<>>]))),
                               Response(200, JsonObject(Success([active_bidders |-> <<Item>>]))) }
                 [] k = 6 -> { Response(200, JsonObject(Success([attributable_entities |-> <<>>]))),
                               Response(200, JsonObject(Success([attributable_entities |-> <<Item>>]))) })

----------------------------------------------------------------------------
(* The orchestrator: main of koddi_healthcheck.py (front = "cli") and      *)
(* run_checks of app.py (front = "web").  A check's call on the client is  *)
(* the one point where the run blocks, so a check is two steps: CallK      *)
(* issues the request, ReturnK takes the outcome, classifies it and        *)
(* records the result.                                                     *)

\* mutant: the list of auth-dependent checks without its last entry
auth_dependent_short ==
    << <<2, "Advertiser Exists">>,
       <<3, "Campaigns Report">>,
       <<4, "Entity Registration Failures">>,
       <<5, "Active Bidders Cache">> >>

auth_dependent ==
    << <<2, "Advertiser Exists">>,
       <<3, "Campaigns Report">>,
       <<4, "Entity Registration Failures">>,
       <<5, "Active Bidders Cache">>,
       <<6, "Attributable Entities Cache">> >>

\* results.append(CheckResult(num, name, SKIPPED, details)) for num, name in pairs
SkippedResults(pairs, details) ==
    [i \in 1..Len(pairs) |-> CheckResult(pairs[i][1], pairs[i][2], SKIPPED, details)]

\* mutant: a warning counts as a failure
results_to_json_warn(rs) ==
    LET output == [i \in 1..Len(rs) |->
                     [check |-> rs[i].number, name |-> rs[i].name,
                      status |-> rs[i].status, details |-> rs[i].details]]
        any_failure == \E i \in 1..Len(rs) : rs[i].status \in {FAIL, WARN}
    IN  [checks |-> output, overall |-> IF any_failure THEN "fail" ELSE "pass"]

\* results_to_json(results) of koddi_healthcheck.py
results_to_json(rs) ==
    LET output == [i \in 1..Len(rs) |->
                     [check |-> rs[i].number, name |-> rs[i].name,
                      status |-> rs[i].status, details |-> rs[i].details]]
        any_failure == \E i \in 1..Len(rs) : rs[i].status = FAIL
    IN  [checks |-> output, overall |-> IF any_failure THEN "fail" ELSE "pass"]

\* json_output of app.py, with fails = sum(1 for r in results if r.status == FAIL)
app_json_output(rs) ==
    LET fails == Cardinality({i \in 1..Len(rs) : rs[i].status = FAIL})
    IN  [checks |-> [i \in 1..Len(rs) |->
                       [check |-> rs[i].number, name |-> rs[i].name,
                        status |-> rs[i].status, details |-> rs[i].details]],
         overall |-> IF fails > 0 THEN "fail" ELSE "pass"]

Init ==
    /\ front \in {"cli", "web"}
    /\ cfg \in Configs
    /\ pc = "start"
    /\ client = "unopened"
    /\ results = <<>>
    /\ token = None
    /\ has_failure = FALSE
    /\ requests = <<>>
    /\ inflight = None
    /\ responses = <<>>
    /\ overall = None
    /\ exit_code = None

\* client.get / client.post is entered
Issue(k, req) ==
    /\ requests' = Append(requests, [check |-> k, request |-> req])
    /\ inflight' = Some(k)

\* mutant: the result is inserted at the head of the list (results.insert(0, r))
Record_prepend(k, o, r) ==
    /\ responses' = Append(responses, [check |-> k, outcome |-> o])
    /\ inflight' = None
    /\ results' = <<r>> \o results

\* the call returned or raised o, and the check's result r is appended
Record(k, o, r) ==
    /\ responses' = Append(responses, [check |-> k, outcome |-> o])
    /\ inflight' = None
    /\ results' = Append(results, r)

\* mutant: has_failure = (r.status == Status.FAIL), which forgets earlier failures
Flag_overwrite(r) == front = "cli" /\ r.status = FAIL

\* has_failure after `if r.status == Status.FAIL: has_failure = True` (main only)
Flag(r) == IF front = "cli" /\ r.status = FAIL THEN TRUE ELSE has_failure

\* base_url.rstrip("/"), and `with httpx.Client(timeout=timeout) as client:`
Start ==
    /\ pc = "start"
    /\ cfg' = [cfg EXCEPT !.base_url = rstrip(@)]
    /\ client' = "open"
    /\ pc' = "call1"
    /\ UNCHANGED <<front, results, token, has_failure, requests, inflight,
                   responses, overall, exit_code>>

Call1 ==
    /\ pc = "call1"
    /\ Issue(1, IF front = "cli"
                THEN check_auth_request(cfg.base_url, cfg.email, cfg.password,
                                        cfg.member_group_id)
                ELSE app_check_auth_request(cfg.base_url, cfg.email, cfg.password,
                                            cfg.member_group_id))
    /\ pc' = "wait1"
    /\ UNCHANGED <<front, cfg, client, results, token, has_failure, responses,
                   overall, exit_code>>

Return1 ==
    /\ pc = "wait1"
    /\ \E o \in RunOutcomes(1) :
         LET ret == IF front = "cli" THEN check_auth(o) ELSE app_check_auth(o)
         IN  /\ Record(1, o, ret[1])
             /\ token' = ret[2]
             /\ has_failure' = Flag(ret[1])
    /\ pc' = "gate_auth"
    /\ UNCHANGED <<front, cfg, client, requests, overall, exit_code>>

\* mutant: Check 7 is gated on authentication too
SkipAuthDependent_exit ==
    /\ pc = "gate_auth"
    /\ token = None
    /\ results' = results \o SkippedResults(auth_dependent,
                                            <<"Skipped -- ", "authentication failed">>)
    /\ pc' = "exit_with"
    /\ UNCHANGED <<front, cfg, client, token, has_failure, requests, inflight,
                   responses, overall, exit_code>>

\* mutant: the checks skipped without a token are attributed to the advertiser check
SkipAuthDependent_misattributed ==
    /\ pc = "gate_auth"
    /\ token = None
    /\ results' = results \o SkippedResults(auth_dependent,
                                            <<"Skipped -- ", "advertiser check failed">>)
    /\ pc' = "call7"
    /\ UNCHANGED <<front, cfg, client, token, has_failure, requests, inflight,
                   responses, overall, exit_code>>

\* if token is None: every auth-dependent check is skipped
SkipAuthDependent ==
    /\ pc = "gate_auth"
    /\ token = None
    /\ results' = results \o SkippedResults(auth_dependent,
                                            <<"Skipped -- ", "authentication failed">>)
    /\ pc' = "call7"
    /\ UNCHANGED <<front, cfg, client, token, has_failure, requests, inflight,
                   responses, overall, exit_code>>

\* mutant: Check 2 is called without testing the token
Call2_ungated ==
    /\ pc = "gate_auth"
    /\ Issue(2, IF front = "cli"
                THEN check_advertiser_request(cfg.base_url, token, cfg.member_group_id,
                                              cfg.advertiser_id)
                ELSE app_check_advertiser_request(cfg.base_url, token,
                                                  cfg.member_group_id, cfg.advertiser_id))
    /\ pc' = "wait2"
    /\ UNCHANGED <<front, cfg, client, results, token, has_failure, responses,
                   overall, exit_code>>

Call2 ==
    /\ pc = "gate_auth"
    /\ token # None
    /\ Issue(2, IF front = "cli"
                THEN check_advertiser_request(cfg.base_url, token, cfg.member_group_id,
                                              cfg.advertiser_id)
                ELSE app_check_advertiser_request(cfg.base_url, token,
                                                  cfg.member_group_id, cfg.advertiser_id))
    /\ pc' = "wait2"
    /\ UNCHANGED <<front, cfg, client, results, token, has_failure, responses,
                   overall, exit_code>>

\* mutant: check_advertiser has no catch-all except clause, an unexpected
\* exception leaves the check and ends the run
Return2_uncaught ==
    /\ pc = "wait2"
    /\ \E o \in RunOutcomes(2) :
         IF o.exc = "Exception" \/ (o.exc = "none" /\ JsonRaises(o.body))
         THEN /\ responses' = Append(responses, [check |-> 2, outcome |-> o])
              /\ inflight' = None
              /\ results' = results
              /\ pc' = "crashed"
         ELSE /\ Record(2, o, IF front = "cli" THEN check_advertiser(o)
                              ELSE app_check_advertiser(o))
              /\ pc' = "gate_adv"
    /\ UNCHANGED <<front, cfg, client, token, has_failure, requests, overall, exit_code>>

\* mutant: the token is cleared when Check 2 returns
Return2_drops_token ==
    /\ pc = "wait2"
    /\ \E o \in RunOutcomes(2) :
         Record(2, o, IF front = "cli" THEN check_advertiser(o)
                      ELSE app_check_advertiser(o))
    /\ pc' = "gate_adv"
    /\ token' = None
    /\ UNCHANGED <<front, cfg, client, has_failure, requests, overall, exit_code>>

Return2 ==
    /\ pc = "wait2"
    /\ \E o \in RunOutcomes(2) :
         Record(2, o, IF front = "cli" THEN check_advertiser(o)
                      ELSE app_check_advertiser(o))
    /\ pc' = "gate_adv"
    /\ UNCHANGED <<front, cfg, client, token, has_failure, requests, overall, exit_code>>

\* mutant: a failed advertiser check skips checks 3-6
SkipAdvertiserDependent_all ==
    /\ pc = "gate_adv"
    /\ results[Len(results)].status = FAIL
    /\ has_failure' = Flag(results[Len(results)])
    /\ results' = results \o SkippedResults(SubSeq(auth_dependent, 2, 5),
                                            <<"Skipped -- ", "advertiser check failed">>)
    /\ pc' = "call7"
    /\ UNCHANGED <<front, cfg, client, token, requests, inflight, responses,
                   overall, exit_code>>

\* mutant: after a failed advertiser check the run goes straight to Check 7
SkipAdvertiserDependent_to7 ==
    /\ pc = "gate_adv"
    /\ results[Len(results)].status = FAIL
    /\ has_failure' = Flag(results[Len(results)])
    /\ results' = results \o SkippedResults(SubSeq(auth_dependent, 2, 3),
                                            <<"Skipped -- ", "advertiser check failed">>)
    /\ pc' = "call7"
    /\ UNCHANGED <<front, cfg, client, token, requests, inflight, responses,
                   overall, exit_code>>

\* if r2.status == Status.FAIL: checks 3-4 are skipped
SkipAdvertiserDependent ==
    /\ pc = "gate_adv"
    /\ results[Len(results)].status = FAIL
    /\ has_failure' = Flag(results[Len(results)])
    /\ results' = results \o SkippedResults(SubSeq(auth_dependent, 2, 3),
                                            <<"Skipped -- ", "advertiser check failed">>)
    /\ pc' = "call5"
    /\ UNCHANGED <<front, cfg, client, token, requests, inflight, responses,
                   overall, exit_code>>

Call3 ==
    /\ pc = "gate_adv"
    /\ results[Len(results)].status # FAIL
    /\ Issue(3, IF front = "cli"
                THEN check_campaigns_request(cfg.base_url, token, cfg.member_group_id,
                                             cfg.advertiser_id)
                ELSE app_check_campaigns_request(cfg.base_url, token,
                                                 cfg.member_group_id, cfg.advertiser_id))
    /\ pc' = "wait3"
    /\ UNCHANGED <<front, cfg, client, results, token, has_failure, responses,
                   overall, exit_code>>

\* mutant: a failed campaigns report skips Check 4
Return3_gate ==
    /\ pc = "wait3"
    /\ \E o \in RunOutcomes(3) :
         LET r3 == IF front = "cli" THEN check_campaigns(o) ELSE app_check_campaigns(o)
         IN  /\ responses' = Append(responses, [check |-> 3, outcome |-> o])
             /\ inflight' = None
             /\ has_failure' = Flag(r3)
             /\ IF r3.status = FAIL
                THEN /\ results' = Append(results, r3)
                                   \o SkippedResults(SubSeq(auth_dependent, 3, 3),
                                                     <<"Skipped -- ", "campaigns check failed">>)
                     /\ pc' = "call5"
                ELSE /\ results' = Append(results, r3)
                     /\ pc' = "call4"
    /\ UNCHANGED <<front, cfg, client, token, requests, overall, exit_code>>

Return3 ==
    /\ pc = "wait3"
    /\ \E o \in RunOutcomes(3) :
         LET r3 == IF front = "cli" THEN check_campaigns(o) ELSE app_check_campaigns(o)
         IN  Record(3, o, r3) /\ has_failure' = Flag(r3)
    /\ pc' = "call4"
    /\ UNCHANGED <<front, cfg, client, token, requests, overall, exit_code>>

Call4 ==
    /\ pc = "call4"
    /\ Issue(4, IF front = "cli"
                THEN check_entity_failures_request(cfg.base_url, token,
                                                   cfg.member_group_id, cfg.advertiser_id)
                ELSE app_check_entity_failures_request(cfg.base_url, token,
                                                       cfg.member_group_id,
                                                       cfg.advertiser_id))
    /\ pc' = "wait4"
    /\ UNCHANGED <<front, cfg, client, results, token, has_failure, responses,
                   overall, exit_code>>

Return4 ==
    /\ pc = "wait4"
    /\ \E o \in RunOutcomes(4) :
         LET r4 == IF front = "cli" THEN check_entity_failures(o)
                   ELSE app_check_entity_failures(o)
         IN  Record(4, o, r4) /\ has_failure' = Flag(r4)
    /\ pc' = "call5"
    /\ UNCHANGED <<front, cfg, client, token, requests, overall, exit_code>>

Call5 ==
    /\ pc = "call5"
    /\ Issue(5, IF front = "cli"
                THEN check_active_bidders_request(cfg.base_url, token,
                                                  cfg.member_group_id)
                ELSE app_check_active_bidders_request(cfg.base_url, token,
                                                      cfg.member_group_id))
    /\ pc' = "wait5"
    /\ UNCHANGED <<front, cfg, client, results, token, has_failure, responses,
                   overall, exit_code>>

\* mutant: a timed-out request is issued again
Return5_retry ==
    /\ pc = "wait5"
    /\ \E o \in RunOutcomes(5) :
         LET r5 == IF front = "cli" THEN check_active_bidders(o)
                   ELSE app_check_active_bidders(o)
         IN  IF o = Timeout
             THEN /\ inflight' = None
                  /\ pc' = "call5"
                  /\ UNCHANGED <<results, responses, has_failure>>
             ELSE /\ Record(5, o, r5)
                  /\ has_failure' = Flag(r5)
                  /\ pc' = "call6"
    /\ UNCHANGED <<front, cfg, client, token, requests, overall, exit_code>>

Return5 ==
    /\ pc = "wait5"
    /\ \E o \in RunOutcomes(5) :
         LET r5 == IF front = "cli" THEN check_active_bidders(o)
                   ELSE app_check_active_bidders(o)
         IN  Record(5, o, r5) /\ has_failure' = Flag(r5)
    /\ pc' = "call6"
    /\ UNCHANGED <<front, cfg, client, token, requests, overall, exit_code>>

Call6 ==
    /\ pc = "call6"
    /\ Issue(6, IF front = "cli"
                THEN check_attributable_entities_request(cfg.base_url, token,
                                                         cfg.member_group_id)
                ELSE app_check_attributable_entities_request(cfg.base_url, token,
                                                             cfg.member_group_id))
    /\ pc' = "wait6"
    /\ UNCHANGED <<front, cfg, client, results, token, has_failure, responses,
                   overall, exit_code>>

Return6 ==
    /\ pc = "wait6"
    /\ \E o \in RunOutcomes(6) :
         LET r6 == IF front = "cli" THEN check_attributable_entities(o)
                   ELSE app_check_attributable_entities(o)
         IN  Record(6, o, r6) /\ has_failure' = Flag(r6)
    /\ pc' = "call7"
    /\ UNCHANGED <<front, cfg, client, token, requests, overall, exit_code>>

\* mutant: Check 7 does not wait for Check 1 (it needs no token)
Call7_early ==
    /\ pc \in {"call7", "wait1"}
    /\ Issue(7, IF front = "cli"
                THEN check_winning_ads_request(cfg.client_name, cfg.site_id,
                                               cfg.experience_name)
                ELSE app_check_winning_ads_request(cfg.client_name, cfg.site_id,
                                                   cfg.experience_name))
    /\ pc' = "wait7"
    /\ UNCHANGED <<front, cfg, client, results, token, has_failure, responses,
                   overall, exit_code>>

Call7 ==
    /\ pc = "call7"
    /\ Issue(7, IF front = "cli"
                THEN check_winning_ads_request(cfg.client_name, cfg.site_id,
                                               cfg.experience_name)
                ELSE app_check_winning_ads_request(cfg.client_name, cfg.site_id,
                                                   cfg.experience_name))
    /\ pc' = "wait7"
    /\ UNCHANGED <<front, cfg, client, results, token, has_failure, responses,
                   overall, exit_code>>

\* mutant: the run is abandoned after Check 7 when a check has failed, no report is made
Return7_aborts ==
    /\ pc = "wait7"
    /\ \E o \in RunOutcomes(7) :
         LET r7 == IF front = "cli" THEN check_winning_ads(cfg.client_name, o)
                   ELSE app_check_winning_ads(cfg.client_name, o)
         IN  Record(7, o, r7) /\ has_failure' = Flag(r7)
    /\ pc' = IF \E i \in DOMAIN results' : results'[i].status = FAIL
              THEN "crashed" ELSE "exit_with"
    /\ UNCHANGED <<front, cfg, client, token, requests, overall, exit_code>>

Return7 ==
    /\ pc = "wait7"
    /\ \E o \in RunOutcomes(7) :
         LET r7 == IF front = "cli" THEN check_winning_ads(cfg.client_name, o)
                   ELSE app_check_winning_ads(cfg.client_name, o)
         IN  Record(7, o, r7) /\ has_failure' = Flag(r7)
    /\ pc' = "exit_with"
    /\ UNCHANGED <<front, cfg, client, token, requests, overall, exit_code>>

\* mutant: the client is created without `with` and never closed
ExitWith_leaks ==
    /\ pc = "exit_with"
    /\ client' = client
    /\ pc' = "report"
    /\ UNCHANGED <<front, cfg, results, token, has_failure, requests, inflight,
                   responses, overall, exit_code>>

\* the with block is left: the client is closed
ExitWith ==
    /\ pc = "exit_with"
    /\ client' = "closed"
    /\ pc' = "report"
    /\ UNCHANGED <<front, cfg, results, token, has_failure, requests, inflight,
                   responses, overall, exit_code>>

\* main: the JSON document (with --json-output) or the summary table, then
\* sys.exit(1 if has_failure else 0)
Exit ==
    /\ pc = "report"
    /\ front = "cli"
    /\ \E use_json \in BOOLEAN :
         overall' = IF use_json THEN Some(results_to_json(results).overall) ELSE None
    /\ exit_code' = Some(IF has_failure THEN 1 ELSE 0)
    /\ pc' = "done"
    /\ UNCHANGED <<front, cfg, client, results, token, has_failure, requests,
                   inflight, responses>>

\* run_checks returns results; the page builds the JSON report
AppReport ==
    /\ pc = "report"
    /\ front = "web"
    /\ overall' = Some(app_json_output(results).overall)
    /\ pc' = "done"
    /\ UNCHANGED <<front, cfg, client, results, token, has_failure, requests,
                   inflight, responses, exit_code>>

Next ==
    \/ Start
    \/ Call1 \/ Return1 \/ SkipAuthDependent
    \/ Call2 \/ Return2 \/ SkipAdvertiserDependent
    \/ Call3 \/ Return3
    \/ Call4 \/ Return4
    \/ Call5 \/ Return5
    \/ Call6 \/ Return6
    \/ Call7 \/ Return7
    \/ ExitWith \/ Exit \/ AppReport

Spec == Init /\ [][Next]_vars

\* every call on the client returns or raises (the configured timeout), and the
\* single thread of a run keeps running
FairSpec == Spec /\ WF_vars(Next)

----------------------------------------------------------------------------
(* The pure functions on their own: one check called on any outcome of its *)
(* call, and the verdict computed from any list of results.                *)

\* the result of check k of front end f for outcome o
Classify(f, k, client_name, o) ==
    CASE k = 1 -> IF f = "cli" THEN check_auth(o)[1] ELSE app_check_auth(o)[1]
      [] k = 2 -> IF f = "cli" THEN check_advertiser(o) ELSE app_check_advertiser(o)
      [] k = 3 -> IF f = "cli" THEN check_campaigns(o) ELSE app_check_campaigns(o)
      [] k = 4 -> IF f = "cli" THEN check_entity_failures(o)
                  ELSE app_check_entity_failures(o)
      [] k = 5 -> IF f = "cli" THEN check_active_bidders(o)
                  ELSE app_check_active_bidders(o)
      [] k = 6 -> IF f = "cli" THEN check_attributable_entities(o)
                  ELSE app_check_attributable_entities(o)
      [] k = 7 -> IF f = "cli" THEN check_winning_ads(client_name, o)
                  ELSE app_check_winning_ads(client_name, o)

Statuses == {PASS, WARN, FAIL, SKIPPED}

UnitInit ==
    /\ front \in {"cli", "web"}
    /\ cfg \in {c \in Configs : c.experience_name = None}
    /\ pc = "unit"
    /\ client = "open"
    /\ results = <<>>
    /\ token = None
    /\ has_failure = FALSE
    /\ requests = <<>>
    /\ inflight = None
    /\ responses = <<>>
    /\ overall = None
    /\ exit_code = None

\* check k is called and its call has outcome o
UnitCheck ==
    /\ pc = "unit"
    /\ \E k \in 1..7 : \E o \in Outcomes(k) :
         /\ responses' = <<[check |-> k, outcome |-> o]>>
         /\ results' = <<Classify(front, k, cfg.client_name, o)>>
         /\ token' = IF k # 1 THEN None
                     ELSE IF front = "cli" THEN check_auth(o)[2] ELSE app_check_auth(o)[2]
    /\ pc' = "checked"
    /\ UNCHANGED <<front, cfg, client, has_failure, requests, inflight, overall,
                   exit_code>>

\* the JSON document is built from a list of results
UnitVerdict ==
    /\ pc = "unit"
    /\ \E sts \in ListsUpTo(Statuses, MaxResults) :
         /\ results' = [i \in 1..Len(sts) |-> CheckResult(i, "check", sts[i], <<>>)]
         /\ overall' = Some(IF front = "cli" THEN results_to_json(results').overall
                            ELSE app_json_output(results').overall)
    /\ pc' = "reported"
    /\ UNCHANGED <<front, cfg, client, token, has_failure, requests, inflight,
                   responses, exit_code>>

UnitNext == UnitCheck \/ UnitVerdict

UnitSpec == UnitInit /\ [][UnitNext]_vars

----------------------------------------------------------------------------
(* The outbound HTTP surface as the specification lists it, used to tell   *)
(* which endpoint a recorded call went to.                                 *)

SpecBase == rstrip(cfg.base_url)
SpecAdvertiserUrl ==
    SpecBase \o <<"/member_groups/">> \o Str(cfg.member_group_id)
             \o <<"/advertisers/">> \o Str(cfg.advertiser_id)
SpecGroupUrl == SpecBase \o <<"/member_groups/">> \o Str(cfg.member_group_id)

SpecEndpoint(k) ==
    CASE k = 1 -> [method |-> "POST", url |-> SpecBase \o <<"/session/login">>]
      [] k = 2 -> [method |-> "GET", url |-> SpecAdvertiserUrl]
      [] k = 3 -> [method |-> "POST", url |-> SpecAdvertiserUrl \o <<"/campaigns_report">>]
      [] k = 4 -> [method |-> "POST",
                   url |-> SpecAdvertiserUrl \o <<"/entity_registrations/failed/report">>]
      [] k = 5 -> [method |-> "GET", url |-> SpecGroupUrl \o <<"/active_bidders">>]
      [] k = 6 -> [method |-> "GET", url |-> SpecGroupUrl \o <<"/attributable_entities">>]
      [] k = 7 -> [method |-> "POST",
                   url |-> <<"https://", cfg.client_name,
                             ".koddi.io/auction-engine/winning_ads">>]

\* the positions in the call log of the calls to the endpoint of check k
CallsTo(k) ==
    LET endpoint == SpecEndpoint(k)
    IN  { i \in DOMAIN requests :
            /\ requests[i].request.method = endpoint.method
            /\ requests[i].request.url = endpoint.url }

NumCallsTo(k) == Cardinality(CallsTo(k))

\* every recorded call went to one of the seven endpoints
KnownCalls == \A i \in DOMAIN requests : \E k \in 1..7 : i \in CallsTo(k)

AnyFail(rs) == \E i \in DOMAIN rs : rs[i].status = FAIL

\* the recorded results with number k
ResultsOf(k) == { i \in DOMAIN results : results[i].number = k }

Finished == pc = "done"

\* Check 1 has returned without a token
NoToken == Len(results) >= 1 /\ token = None

\* Check 1 yielded a token and Check 2 has failed
AdvertiserFailed == Len(results) >= 2 /\ token # None /\ results[2].status = FAIL

----------------------------------------------------------------------------
(* C1: every completed run, of either front end and whatever the outcomes  *)
(* of its calls, has exactly 7 results, numbered 1, 2, ..., 7 in order.    *)
(* (The results recorded so far are numbered 1, 2, ... at every step.)     *)

C1_SevenResultsInOrder ==
    /\ \A i \in DOMAIN results : results[i].number = i
    /\ Finished => Len(results) = 7

\* a finished run in which a call raised an unexpected exception, a call timed
\* out and checks were skipped
C1_Witness ==
    /\ Finished
    /\ Len(results) = 7
    /\ \E i \in DOMAIN responses : responses[i].outcome.exc = "Exception"
    /\ \E i \in DOMAIN responses : responses[i].outcome.exc = "TimeoutException"
    /\ \E i \in DOMAIN results : results[i].status = SKIPPED

(* C2: if Check 1 yields no token, results 2..6 are all Skipped with       *)
(* details containing "authentication failed", and no request to an        *)
(* endpoint of checks 2..6 is ever issued in the run.                      *)

C2_AuthFailedSkipsAll ==
    NoToken =>
      /\ \A k \in 2..6 : CallsTo(k) = {}
      /\ Finished =>
           \A k \in 2..6 :
             /\ results[k].number = k
             /\ results[k].status = SKIPPED
             /\ Contains(results[k].details, "authentication failed")

C2_Witness ==
    /\ Finished
    /\ NoToken
    /\ results[6].status = SKIPPED
    /\ Len(requests) = 2

(* C3: if Check 1 yields a token and Check 2 is Fail (for any cause), then *)
(* checks 3 and 4 are Skipped with details containing "advertiser check    *)
(* failed" and issue no request, while checks 5 and 6 each issue exactly   *)
(* one request and are never Skipped.                                      *)

C3_AdvertiserFailedSkips34 ==
    AdvertiserFailed =>
      /\ CallsTo(3) = {} /\ CallsTo(4) = {}
      /\ \A k \in 3..4 :
           Len(results) >= 4 =>
             /\ results[k].status = SKIPPED
             /\ Contains(results[k].details, "advertiser check failed")
      /\ \A k \in 5..6 :
           /\ Len(results) >= k => results[k].status # SKIPPED /\ NumCallsTo(k) = 1
           /\ Finished => Len(results) >= k

\* Check 2 failed by a connection error, and the run finished
C3_Witness ==
    /\ Finished
    /\ AdvertiserFailed
    /\ responses[2].outcome = ConnectError
    /\ results[3].status = SKIPPED
    /\ results[5].status = PASS
    /\ results[6].status = WARN

(* C4: in every run, whatever the outcomes of checks 1..6, the request of  *)
(* Check 7 to the auction endpoint is eventually issued, it is issued at   *)
(* most once, and result 7 is never Skipped; the run ends with result 7    *)
(* recorded after exactly one such request.                                *)

C4_Check7AlwaysAttempted ==
    /\ <>(NumCallsTo(7) = 1)
    /\ <>(Finished /\ NumCallsTo(7) = 1 /\ Len(results) = 7
          /\ results[7].number = 7 /\ results[7].status # SKIPPED)
    /\ [](NumCallsTo(7) <= 1)
    /\ [](\A i \in DOMAIN results : results[i].number = 7 => results[i].status # SKIPPED)

\* authentication failed, checks 2..6 were skipped, and Check 7 was still called
C4_Witness ==
    /\ Finished
    /\ NoToken
    /\ results[2].status = SKIPPED
    /\ NumCallsTo(7) = 1
    /\ responses[Len(responses)].check = 7
    /\ results[7].status = PASS

(* C5: the overall verdict computed from a result list is "fail" if and    *)
(* only if some result has status Fail, and "pass" otherwise.              *)

C5_OverallVerdict ==
    overall # None => overall = Some(IF AnyFail(results) THEN "fail" ELSE "pass")

\* a list of Warn, Pass and Skipped results only, with verdict "pass"
C5_Witness ==
    /\ pc = "reported"
    /\ overall = Some("pass")
    /\ Len(results) = 7
    /\ \E i \in DOMAIN results : results[i].status = WARN
    /\ \E i \in DOMAIN results : results[i].status = SKIPPED
    /\ \E i \in DOMAIN results : results[i].status = PASS

(* C6: the CLI exits with code 1 if some result is Fail and with code 0    *)
(* otherwise: at exit has_failure equals "some result has status Fail",    *)
(* and the exit code agrees with the overall verdict of the JSON document. *)

C6_ExitCode ==
    (front = "cli" /\ Finished) =>
      /\ has_failure = AnyFail(results)
      /\ exit_code = Some(IF AnyFail(results) THEN 1 ELSE 0)
      /\ overall # None => (exit_code = Some(1) <=> overall = Some("fail"))
      /\ overall # None => (exit_code = Some(0) <=> overall = Some("pass"))

\* the only Fail of the run is Check 2's, recorded on the skip path
C6_Witness ==
    /\ front = "cli"
    /\ Finished
    /\ exit_code = Some(1)
    /\ overall = Some("fail")
    /\ results[2].status = FAIL
    /\ results[3].status = SKIPPED
    /\ \A i \in DOMAIN results : i # 2 => results[i].status # FAIL

(* C7: each executed (non-skipped) check issues exactly one request, a     *)
(* skipped check none, and no endpoint is requested twice in a run; a call *)
(* that times out, cannot connect or gets a domain error makes its check   *)
(* Fail, and the run goes on (it never stops before it is finished).       *)

FailedCall(k, o) ==
    \/ o.exc \in {"TimeoutException", "ConnectError"}
    \/ /\ k \in 1..6
       /\ o.exc = "none"
       /\ o.body.json = "object"
       /\ Get(o.body.data, "status", "") # "success"

C7_OneRequestNoRetry ==
    /\ \A k \in 1..7 : NumCallsTo(k) <= 1
    /\ \A i \in DOMAIN results :
         NumCallsTo(results[i].number) = IF results[i].status = SKIPPED THEN 0 ELSE 1
    /\ Len(requests) = Len(responses) + Len(inflight)
    /\ \A i \in DOMAIN responses :
         FailedCall(responses[i].check, responses[i].outcome) =>
           /\ responses[i].check \in DOMAIN results
           /\ results[responses[i].check].status = FAIL
    /\ ~Finished => ENABLED Next

\* Check 3 timed out, Check 5 got a domain error, and the run finished with
\* one call per executed check
C7_Witness ==
    /\ Finished
    /\ Len(requests) = 7
    /\ responses[3].outcome = Timeout
    /\ responses[5].outcome = Response(200, JsonObject(Denied))
    /\ results[3].status = FAIL
    /\ results[5].status = FAIL
    /\ results[6].status = PASS

(* C8: if Check 1 yields a token and Check 2 passed, checks 3, 4, 5 and 6  *)
(* are all executed (one request each, never Skipped), whatever the        *)
(* outcomes of checks 3 and 4.                                             *)

AdvertiserOk == Len(results) >= 2 /\ token # None /\ results[2].status = PASS

C8_AllExecutedAfterAdvertiserOk ==
    AdvertiserOk =>
      /\ \A k \in 3..6 :
           Len(results) >= k => results[k].status # SKIPPED /\ NumCallsTo(k) = 1
      /\ Finished => Len(results) = 7
      /\ ~Finished => ENABLED Next

\* Check 3 failed, Check 4 warned, and checks 5 and 6 were still executed
C8_Witness ==
    /\ Finished
    /\ AdvertiserOk
    /\ results[3].status = FAIL
    /\ results[4].status = WARN
    /\ results[5].status = FAIL
    /\ results[6].status = PASS
    /\ NumCallsTo(4) = 1 /\ NumCallsTo(5) = 1 /\ NumCallsTo(6) = 1

(* C9: checks run one after another in ascending order: the request of     *)
(* check k is issued only when the results of all lower-numbered checks    *)
(* 1..k-1 are recorded and no other request is in flight, and at most one  *)
(* request is in flight at any time.                                       *)

C9_Issue ==
    requests' # requests =>
      /\ Len(requests') = Len(requests) + 1
      /\ SubSeq(requests', 1, Len(requests)) = requests
      /\ Len(responses) = Len(requests)
      /\ inflight = None
      /\ \E k \in 1..7 :
           /\ requests'[Len(requests')].request.method = SpecEndpoint(k).method
           /\ requests'[Len(requests')].request.url = SpecEndpoint(k).url
           /\ Len(results) = k - 1
           /\ \A i \in 1..(k - 1) : results[i].number = i

C9_Sequential ==
    /\ [](Len(requests) - Len(responses) \in {0, 1})
    /\ [](Len(inflight) = Len(requests) - Len(responses))
    /\ [][C9_Issue]_vars

\* the request of Check 5 is in flight after checks 3 and 4 were skipped
C9_Witness ==
    /\ inflight = Some(5)
    /\ Len(results) = 4
    /\ results[4].status = SKIPPED
    /\ Len(requests) = 3
    /\ Len(responses) = 2

(* C10: for each console check 1..6, a JSON-object response whose top-level *)
(* status field is not "success" is classified Fail; checks 2..6 give the   *)
(* details "Error {error_code}: {error_message}" and Check 1 gives "Login   *)
(* failed -- code {error_code}: {error_message}", where error_code defaults *)
(* to "unknown" and error_message is the message field, else the error      *)
(* field, else "unknown error".                                             *)

SpecErrorText(data) ==
    << Get(data, "error_code", "unknown"), ": ",
       IF "message" \in DOMAIN data THEN data["message"]
       ELSE IF "error" \in DOMAIN data THEN data["error"]
       ELSE "unknown error" >>

\* the recorded responses that are domain errors of a console check
DomainErrors ==
    { i \in DOMAIN responses :
        /\ responses[i].check \in 1..6
        /\ responses[i].outcome.exc = "none"
        /\ responses[i].outcome.body.json = "object"
        /\ Get(responses[i].outcome.body.data, "status", "") # "success" }

C10_EnvelopeRule ==
    \A i \in DomainErrors :
      LET k == responses[i].check
          data == responses[i].outcome.body.data
      IN  /\ ResultsOf(k) # {}
          /\ \A j \in ResultsOf(k) :
               /\ results[j].status = FAIL
               /\ results[j].details =
                    (IF k = 1 THEN <<"Login failed -- code ">> ELSE <<"Error ">>)
                    \o SpecErrorText(data)

\* C10 as stated: the details are "Error {error_code}: {error_message}" for
\* every check 1..6
C10_Original ==
    \A i \in DomainErrors :
      LET k == responses[i].check
          data == responses[i].outcome.body.data
      IN  /\ ResultsOf(k) # {}
          /\ \A j \in ResultsOf(k) :
               /\ results[j].status = FAIL
               /\ results[j].details = <<"Error ">> \o SpecErrorText(data)

\* Check 5 on a body with neither status, error_code nor message, only error
C10_Witness ==
    /\ pc = "checked"
    /\ DomainErrors = {1}
    /\ responses[1].check = 5
    /\ responses[1].outcome.body.data = [error |-> "invalid request"]
    /\ results[1].status = FAIL
    /\ results[1].details = <<"Error ", "unknown", ": ", "invalid request">>

----------------------------------------------------------------------------
(* C11: when the login response has status "error", error_code "E401" and  *)
(* message "bad credentials", result 1 is Fail with the details            *)
(* "Login failed -- code E401: bad credentials", no token is held, no      *)
(* call is made to the endpoints of checks 2..6, and in the completed run  *)
(* results 2..6 are all Skipped.                                           *)

\* the login call has returned the "bad credentials" envelope
LoginDenied ==
    /\ Len(responses) >= 1
    /\ responses[1].check = 1
    /\ responses[1].outcome.exc = "none"
    /\ responses[1].outcome.body.json = "object"
    /\ responses[1].outcome.body.data =
         [status |-> "error", error_code |-> "E401", message |-> "bad credentials"]

C11_LoginDenied ==
    LoginDenied =>
      /\ Len(results) >= 1
      /\ results[1].number = 1
      /\ results[1].status = FAIL
      /\ results[1].details = <<"Login failed -- code ", "E401", ": ", "bad credentials">>
      /\ token = None
      /\ \A k \in 2..6 : NumCallsTo(k) = 0
      /\ Finished => /\ Len(results) = 7
                     /\ \A k \in 2..6 : results[k].status = SKIPPED

\* a completed command-line run whose login was denied
C11_Witness ==
    /\ Finished
    /\ front = "cli"
    /\ LoginDenied
    /\ results[1].status = FAIL
    /\ \A k \in 2..6 : results[k].status = SKIPPED

----------------------------------------------------------------------------
(* C12: the transport-failure mapping of checks 1..7.  A call that raised  *)
(* gives the one result Fail, with the details "Request timed out" for a   *)
(* timeout, "Unexpected error: {message}" for any exception other than a   *)
(* timeout or a connection failure, and "Connection error" for a           *)
(* connection failure, to which Check 1 appends " -- cannot reach API"     *)
(* and Check 7 " -- cannot reach {client_name}.koddi.io".                  *)

\* the recorded calls that raised
Raised == { i \in DOMAIN responses : responses[i].outcome.exc # "none" }

\* the host of the console API, as the configured base URL has it
ApiHost == cfg.base_url[2]
AuctionHost == <<cfg.client_name, ".koddi.io">>

C12_TransportMapping ==
    \A i \in Raised :
      LET k == responses[i].check
          o == responses[i].outcome
      IN  /\ ResultsOf(k) # {}
          /\ \A j \in ResultsOf(k) :
               /\ results[j].status = FAIL
               /\ results[j].details =
                    CASE o.exc = "TimeoutException" -> <<"Request timed out">>
                      [] o.exc = "ConnectError" ->
                           <<"Connection error">>
                           \o (CASE k = 1 -> <<" -- cannot reach ", "API">>
                                 [] k = 7 -> <<" -- cannot reach ">> \o AuctionHost
                                 [] OTHER -> <<>>)
                      [] OTHER -> <<"Unexpected error: ", o.msg>>

\* C12 as stated: on a connection failure Check 1 and Check 7 both name the
\* host that could not be reached
C12_Original ==
    \A i \in Raised :
      LET k == responses[i].check
          o == responses[i].outcome
      IN  /\ ResultsOf(k) # {}
          /\ \A j \in ResultsOf(k) :
               /\ results[j].status = FAIL
               /\ o.exc = "TimeoutException" => results[j].details = <<"Request timed out">>
               /\ o.exc = "Exception" => results[j].details = <<"Unexpected error: ", o.msg>>
               /\ o.exc = "ConnectError" =>
                    /\ results[j].details[1] = "Connection error"
                    /\ k \in 2..6 => Len(results[j].details) = 1
                    /\ k = 1 => Contains(results[j].details, ApiHost)
                    /\ k = 7 => \A n \in DOMAIN AuctionHost :
                                  Contains(results[j].details, AuctionHost[n])

\* the login call could not connect
C12_Witness ==
    /\ pc = "checked"
    /\ Raised = {1}
    /\ responses[1].check = 1
    /\ responses[1].outcome = ConnectError
    /\ results[1].status = FAIL
    /\ results[1].details = <<"Connection error", " -- cannot reach ", "API">>

----------------------------------------------------------------------------
(* C13: no failure inside a check leaves the check.  Whatever went wrong   *)
(* with the call of check k (a timeout, a connection failure, any other    *)
(* exception, a body that is not JSON or not a JSON object, an error       *)
(* envelope, a login without id_token, an HTTP error of the auction), the  *)
(* check has recorded exactly one result, which is Fail, and the run goes  *)
(* on: it can take a step until it is finished, and finishes with all 7    *)
(* results.                                                                *)

\* the outcome o of the call of check k is a failure inside the check
FailsInside(k, o) ==
    \/ o.exc # "none"
    \/ /\ o.exc = "none"
       /\ \/ k = 7 /\ o.status_code # 200
          \/ o.body.json # "object"
          \/ /\ k \in 1..6
             /\ o.body.json = "object"
             /\ \/ Get(o.body.data, "status", "") # "success"
                \/ /\ k = 1
                   /\ "id_token" \notin
                        DOMAIN Get(Get(o.body.data, "result", EmptyObj), "token", EmptyObj)

C13_FailuresContained ==
    /\ \A i \in DOMAIN responses :
         LET k == responses[i].check
         IN  /\ Cardinality(ResultsOf(k)) = 1
             /\ FailsInside(k, responses[i].outcome) =>
                  \A j \in ResultsOf(k) : results[j].status = FAIL
    /\ Len(results) >= Len(responses)
    /\ ~Finished => ENABLED Next
    /\ Finished => Len(results) = 7

\* a completed run in which the login answered with a body that is not
\* JSON and the auction call raised an unexpected exception
C13_Witness ==
    /\ Finished
    /\ Len(responses) = 2
    /\ responses[1].check = 1
    /\ responses[1].outcome.exc = "none"
    /\ responses[1].outcome.body.json = "invalid"
    /\ responses[2].check = 7
    /\ responses[2].outcome.exc = "Exception"
    /\ results[1].status = FAIL
    /\ results[7].status = FAIL

----------------------------------------------------------------------------
(* C14: result 1 is Pass, with the details "Authenticated successfully",   *)
(* and a token is carried, exactly when the login response is a JSON       *)
(* object with status "success" whose result.token.id_token is present     *)
(* and not empty; the token carried is that id_token.  A success envelope  *)
(* whose id_token is absent or empty gives Fail with the details           *)
(* "No id_token in response" and no token.  Once the login has returned,   *)
(* a token is held exactly when result 1 is Pass.                          *)

\* the id_token of a login outcome: None unless the outcome is a success
\* envelope, in which result.token.id_token is present
IdToken(o) ==
    IF o.exc = "none" /\ o.body.json = "object"
       /\ "status" \in DOMAIN o.body.data /\ o.body.data["status"] = "success"
       /\ "result" \in DOMAIN o.body.data
       /\ "token" \in DOMAIN o.body.data["result"]
       /\ "id_token" \in DOMAIN o.body.data["result"]["token"]
    THEN Some(o.body.data["result"]["token"]["id_token"])
    ELSE None

SuccessEnvelope(o) ==
    /\ o.exc = "none"
    /\ o.body.json = "object"
    /\ "status" \in DOMAIN o.body.data
    /\ o.body.data["status"] = "success"

C14_TokenIffPass ==
    \A i \in DOMAIN responses :
      responses[i].check = 1 =>
        LET o == responses[i].outcome
            granted == IdToken(o) # None /\ IdToken(o) # Some("")
        IN  /\ ResultsOf(1) = {1}
            /\ results[1].status = PASS <=> granted
            /\ token # None <=> results[1].status = PASS
            /\ granted => /\ results[1].details = <<"Authenticated successfully">>
                          /\ token = IdToken(o)
            /\ SuccessEnvelope(o) /\ ~granted =>
                 /\ results[1].status = FAIL
                 /\ results[1].details = <<"No id_token in response">>
                 /\ token = None

\* a success envelope with an empty id_token
C14_Witness ==
    /\ pc = "checked"
    /\ responses[1].check = 1
    /\ SuccessEnvelope(responses[1].outcome)
    /\ IdToken(responses[1].outcome) = Some("")
    /\ results[1].status = FAIL
    /\ token = None

----------------------------------------------------------------------------
(* C15: for a success envelope answered to Check 3, with total read from   *)
(* result.total and defaulting to the number of listed campaigns, the      *)
(* result is Warn with the text "Zero campaigns found for this advertiser" *)
(* exactly when total = 0, and otherwise Pass with the header              *)
(* "Found {total} campaign(s)" followed by one line per listed campaign;   *)
(* it is never Fail.  (The command line puts a warning sign in front of    *)
(* the Warn text, the web front end does not.)                             *)

\* the text of a Warn result without the warning sign of the command line
Unsigned(details) ==
    IF Len(details) > 0 /\ details[1] = "(!)  " THEN Tail(details) ELSE details

\* the number of lines of a text
NumLines(details) == 1 + Cardinality({ n \in DOMAIN details : details[n] = "\n" })

\* the recorded responses to check k that are success envelopes
Successes(k) ==
    { i \in DOMAIN responses :
        responses[i].check = k /\ SuccessEnvelope(responses[i].outcome) }

\* the field key of the result object of a success envelope, if present
ResultField(o, key) ==
    IF "result" \in DOMAIN o.body.data /\ key \in DOMAIN o.body.data["result"]
    THEN Some(o.body.data["result"][key])
    ELSE None

----------------------------------------------------------------------------
(* C16: for a success envelope answered to Check 4, with total read from   *)
(* result.total and defaulting to 0, the result is Pass with the details   *)
(* "No entity registration failures" exactly when total = 0, and Warn for  *)
(* every other total, a negative one included.  The Warn text has the      *)
(* header "{total} registration failure(s) found. First {n}:" followed by  *)
(* n lines, one for each of the first 5 entries of entity_registrations:   *)
(* n = min(5, length of the list).                                         *)

Min(a, b) == IF a <= b THEN a ELSE b

\* the total Check 4 reads from the response o
FailureTotal(o) ==
    IF ResultField(o, "total") = None THEN 0 ELSE ResultField(o, "total")[1]

\* the number of entries of entity_registrations Check 4 lists
FailuresListed(o) ==
    IF ResultField(o, "entity_registrations") = None THEN 0
    ELSE Min(5, Len(ResultField(o, "entity_registrations")[1]))

\* the Warn text of Check 4 is the header and one line per listed entry
FailureListing(o, details) ==
    LET header == Str(FailureTotal(o)) \o <<" registration failure(s) found. First ">>
                  \o Str(FailuresListed(o)) \o <<":">>
    IN  /\ Len(details) >= Len(header)
        /\ SubSeq(details, 1, Len(header)) = header
        /\ NumLines(details) = 1 + FailuresListed(o)

C16_EntityFailuresRule ==
    \A i \in Successes(4) :
      LET o == responses[i].outcome
      IN  /\ ResultsOf(4) # {}
          /\ \A j \in ResultsOf(4) :
               /\ results[j].status = IF FailureTotal(o) = 0 THEN PASS ELSE WARN
               /\ results[j].status = PASS =>
                    results[j].details = <<"No entity registration failures">>
               /\ results[j].status = WARN =>
                    FailureListing(o, Unsigned(results[j].details))

\* C16 as stated: Warn exactly when total > 0, Pass otherwise
C16_Original ==
    \A i \in Successes(4) :
      LET o == responses[i].outcome
      IN  /\ ResultsOf(4) # {}
          /\ \A j \in ResultsOf(4) :
               /\ results[j].status = IF FailureTotal(o) > 0 THEN WARN ELSE PASS
               /\ results[j].status = PASS =>
                    results[j].details = <<"No entity registration failures">>
               /\ results[j].status = WARN =>
                    FailureListing(o, Unsigned(results[j].details))

\* total 2 with six entries: Warn, "2 registration failure(s) found. First 5:"
\* and five lines
C16_Witness ==
    /\ pc = "checked"
    /\ Successes(4) = {1}
    /\ FailureTotal(responses[1].outcome) = 2
    /\ ResultField(responses[1].outcome, "entity_registrations") # None
    /\ Len(ResultField(responses[1].outcome, "entity_registrations")[1]) = 6
    /\ results[1].status = WARN
    /\ SubSeq(Unsigned(results[1].details), 1, 4)
         = <<"2", " registration failure(s) found. First ", "5", ":">>
    /\ NumLines(results[1].details) = 6

----------------------------------------------------------------------------
(* C17: for a success envelope answered to Check 5 (list active_bidders)   *)
(* or Check 6 (list attributable_entities), the result is Warn exactly     *)
(* when the list is empty or absent, and Pass when it has n > 0 entries,   *)
(* with the details "{n} active bidder(s) in cache" for Check 5 and        *)
(* "{n} attributable entit(ies) in cache" for Check 6.                     *)

\* the list Check 5 or Check 6 reads from the response o
CacheList(k, o) ==
    LET key == IF k = 5 THEN "active_bidders" ELSE "attributable_entities"
    IN  IF ResultField(o, key) = None THEN <<>> ELSE ResultField(o, key)[1]

C17_CacheListRule ==
    \A k \in {5, 6} : \A i \in Successes(k) :
      LET n == Len(CacheList(k, responses[i].outcome))
      IN  /\ ResultsOf(k) # {}
          /\ \A j \in ResultsOf(k) :
               /\ results[j].status = IF n = 0 THEN WARN ELSE PASS
               /\ n > 0 =>
                    results[j].details =
                      Str(n) \o (IF k = 5 THEN <<" active bidder(s) in cache">>
                                 ELSE <<" attributable entit(ies) in cache">>)

\* Check 6 on a list of one attributable entity
C17_Witness ==
    /\ pc = "checked"
    /\ Successes(6) = {1}
    /\ Len(CacheList(6, responses[1].outcome)) = 1
    /\ results[1].status = PASS
    /\ results[1].details = <<"1", " attributable entit(ies) in cache">>

----------------------------------------------------------------------------
(* C18: Check 7 does not read an envelope status field.  A response with   *)
(* a status code c other than 200 is Fail with details that start          *)
(* "HTTP {c}", whatever its body.  A response with status code 200 whose   *)
(* body is a JSON object is Pass, whatever the object's status field,      *)
(* with the details "Auction responded OK -- {n} sponsored listing(s)      *)
(* returned" for n > 0 sponsored_listings and "Auction responded OK -- 0   *)
(* listings (expected with empty bidders)" for none.  A response with      *)
(* status code 200 whose body is not a JSON object is Fail with details    *)
(* "Unexpected error: ...".                                                *)

\* the recorded responses of the auction engine
AuctionResponses ==
    { i \in DOMAIN responses :
        responses[i].check = 7 /\ responses[i].outcome.exc = "none" }

\* the number of sponsored_listings of a body that is a JSON object
NumListings(body) ==
    IF "sponsored_listings" \in DOMAIN body.data
    THEN Len(body.data["sponsored_listings"]) ELSE 0

HttpFail(r, code) ==
    /\ r.status = FAIL
    /\ Len(r.details) > Len(Str(code))
    /\ SubSeq(r.details, 1, 1 + Len(Str(code))) = <<"HTTP ">> \o Str(code)

AuctionPass(r, body) ==
    /\ body.json = "object"
    /\ r.status = PASS
    /\ r.details =
         IF NumListings(body) > 0
         THEN <<"Auction responded OK -- ">> \o Str(NumListings(body))
              \o <<" sponsored listing(s) returned">>
         ELSE <<"Auction responded OK -- 0 listings (expected with empty bidders)">>

C18_AuctionRule ==
    \A i \in AuctionResponses :
      LET o == responses[i].outcome
      IN  /\ ResultsOf(7) # {}
          /\ \A j \in ResultsOf(7) :
               /\ o.status_code # 200 => HttpFail(results[j], o.status_code)
               /\ o.status_code = 200 /\ o.body.json = "object" =>
                    AuctionPass(results[j], o.body)
               /\ o.status_code = 200 /\ o.body.json # "object" =>
                    /\ results[j].status = FAIL
                    /\ results[j].details[1] = "Unexpected error: "

\* C18 as stated: every response with status code 200 is Pass
C18_Original ==
    \A i \in AuctionResponses :
      LET o == responses[i].outcome
      IN  /\ ResultsOf(7) # {}
          /\ \A j \in ResultsOf(7) :
               /\ o.status_code # 200 => HttpFail(results[j], o.status_code)
               /\ o.status_code = 200 => AuctionPass(results[j], o.body)

\* status code 200 and a body with status "error" and no listings: Pass
C18_Witness ==
    /\ pc = "checked"
    /\ AuctionResponses = {1}
    /\ responses[1].outcome.status_code = 200
    /\ responses[1].outcome.body = JsonObject([status |-> "error"])
    /\ results[1].status = PASS
    /\ results[1].details =
         <<"Auction responded OK -- 0 listings (expected with empty bidders)">>

----------------------------------------------------------------------------
(* C19: the session token is sent only where required.  Every request to   *)
(* the endpoint of a check 2..6 has an Authorization header, whose value   *)
(* is the id_token of the login response as it came (no "Bearer " in       *)
(* front).  The requests to the endpoints of Check 1 and Check 7 have no   *)
(* Authorization header, also when a token is held.  Every request goes    *)
(* to one of the seven endpoints.                                          *)

C19_TokenOnlyWhereRequired ==
    /\ \A k \in 2..6 : \A i \in CallsTo(k) :
         /\ "Authorization" \in DOMAIN requests[i].request.headers
         /\ Len(responses) >= 1
         /\ responses[1].check = 1
         /\ Some(requests[i].request.headers["Authorization"])
              = IdToken(responses[1].outcome)
    /\ \A k \in {1, 7} : \A i \in CallsTo(k) :
         "Authorization" \notin DOMAIN requests[i].request.headers
    /\ Len(requests) = NumCallsTo(1) + NumCallsTo(2) + NumCallsTo(3) + NumCallsTo(4)
                       + NumCallsTo(5) + NumCallsTo(6) + NumCallsTo(7)

\* a completed run with the token "xyz": the request of Check 6 carried
\* "xyz", the request of Check 7, made after it, carried no header
C19_Witness ==
    /\ Finished
    /\ token = Some("xyz")
    /\ Len(requests) = 7
    /\ requests[6].request.headers = [Authorization |-> "xyz"]
    /\ 6 \in CallsTo(6)
    /\ 7 \in CallsTo(7)
    /\ DOMAIN requests[7].request.headers = {}

----------------------------------------------------------------------------
(* C20: every Skipped result names its actual cause.  Its details contain  *)
(* "authentication failed" exactly when Check 1 yielded no token, and      *)
(* "advertiser check failed" exactly when a token was obtained and result  *)
(* 2 is Fail; it names exactly one of the two.  So without a token the     *)
(* Skipped results 3 and 4 are attributed to authentication.               *)

SkippedResultsAt == { i \in DOMAIN results : results[i].status = SKIPPED }

C20_SkipCause ==
    \A i \in SkippedResultsAt :
      LET by_auth == Contains(results[i].details, "authentication failed")
          by_advertiser == Contains(results[i].details, "advertiser check failed")
      IN  /\ results[1].status # SKIPPED
          /\ by_auth <=> token = None
          /\ by_advertiser <=> (/\ token # None
                                /\ Len(results) >= 2
                                /\ results[2].status = FAIL)
          /\ by_auth # by_advertiser
          /\ token = None => results[i].number \in 2..6
          /\ token # None => results[i].number \in 3..4

\* both causes are seen: here a completed run with a token whose advertiser
\* check failed, so that results 3 and 4 name the advertiser check
C20_Witness ==
    /\ Finished
    /\ token # None
    /\ results[2].status = FAIL
    /\ SkippedResultsAt = {3, 4}
    /\ Contains(results[3].details, "advertiser check failed")
    /\ Contains(results[4].details, "advertiser check failed")

----------------------------------------------------------------------------
(* Reclassification: a check is applied to an outcome, then any check to   *)
(* any outcome while the session state changes, then the first check to    *)
(* the first outcome again.                                                *)

\* some check classifies some outcome, and the session state changes
ClassifyOther ==
    /\ pc = "checked"
    /\ \E k \in 1..7 : \E o \in RunOutcomes(k) :
         /\ responses' = Append(responses, [check |-> k, outcome |-> o])
         /\ results' = Append(results, Classify(front, k, cfg.client_name, o))
    /\ token' \in {None, Some("abc")}
    /\ has_failure' \in BOOLEAN
    /\ pc' = "interleaved"
    /\ UNCHANGED <<front, cfg, client, requests, inflight, overall, exit_code>>

\* the first outcome is classified again by its check
Reclassify ==
    /\ pc \in {"checked", "interleaved"}
    /\ responses' = Append(responses, responses[1])
    /\ results' = Append(results, Classify(front, responses[1].check, cfg.client_name,
                                           responses[1].outcome))
    /\ pc' = "reclassified"
    /\ UNCHANGED <<front, cfg, client, token, has_failure, requests, inflight,
                   overall, exit_code>>

PureNext == UnitCheck \/ ClassifyOther \/ Reclassify

PureSpec == UnitInit /\ [][PureNext]_vars

(* C21: classification is a function of the check and the raw outcome of   *)
(* its call.  Whenever the same outcome has been classified by the same    *)
(* check twice, whatever was classified in between and whatever the token  *)
(* and the failure flag were, the two CheckResults are identical in        *)
(* number, name, status and details.                                       *)

----------------------------------------------------------------------------
(* C22: the result list only grows by appending.  Every step of a run      *)
(* leaves the results recorded so far in place, unchanged, as a prefix of  *)
(* the new list, and what it appends are results of checks that had no     *)
(* result yet: a CheckResult is created once per check and never altered   *)
(* or removed by a later check or skip decision.                           *)

\* the numbers of the checks that have a result in the list rs
Numbers(rs) == { rs[i].number : i \in DOMAIN rs }

C22_Step ==
    /\ Len(results') >= Len(results)
    /\ SubSeq(results', 1, Len(results)) = results
    /\ \A i \in (Len(results) + 1)..Len(results') :
         /\ results'[i].number \notin Numbers(results)
         /\ \A j \in (Len(results) + 1)..Len(results') :
              results'[i].number = results'[j].number => i = j

C22_AppendOnly == [][C22_Step]_vars

\* a completed run in which results were appended by a check that passed, a
\* check that failed, a skip decision and the checks after it
C22_Witness ==
    /\ Finished
    /\ Len(results) = 7
    /\ results[1].status = PASS
    /\ results[2].status = FAIL
    /\ results[3].status = SKIPPED
    /\ results[5].status = WARN
    /\ Numbers(results) = 1..7

----------------------------------------------------------------------------
(* C23: the session state of a run changes in one direction only.  The     *)
(* token is absent until Check 1 has passed; the one step that changes it  *)
(* is the return of Check 1, which sets it from absent to the id_token of  *)
(* the login response; the steps of checks 2..7, the skip decisions and    *)
(* the report leave it as it is.  A request goes to the endpoint of Check  *)
(* 3 or Check 4 only when result 2 is recorded and is not Fail, and once   *)
(* result 2 is Fail no later step makes such a request.                    *)

\* the calls to the endpoints of checks 3 and 4 that the step adds to the log
AdvertiserScopedCalls ==
    { i \in (Len(requests) + 1)..Len(requests') :
        \E k \in {3, 4} :
          /\ requests'[i].request.method = SpecEndpoint(k).method
          /\ requests'[i].request.url = SpecEndpoint(k).url }

C23_Step ==
    /\ token # None => Len(results) >= 1 /\ results[1].status = PASS
    /\ token' # None => Len(results') >= 1 /\ results'[1].status = PASS
    /\ token' # token =>
         /\ token = None
         /\ Len(results) = 0
         /\ Len(results') = 1
         /\ token' = IdToken(responses'[1].outcome)
    /\ Len(requests') >= Len(requests)
    /\ AdvertiserScopedCalls # {} =>
         /\ token # None
         /\ Len(results) >= 2
         /\ results[2].status # FAIL
    /\ Len(results) >= 2 /\ results[2].status = FAIL =>
         /\ AdvertiserScopedCalls = {}
         /\ results'[2].status = FAIL

C23_SessionMonotone == [][C23_Step]_vars

\* a completed run that got the token "xyz", kept it to the end, and whose
\* advertiser check failed: no call to checks 3 and 4, but to checks 5, 6, 7
C23_Witness ==
    /\ Finished
    /\ token = Some("xyz")
    /\ results[2].status = FAIL
    /\ NumCallsTo(3) + NumCallsTo(4) = 0
    /\ NumCallsTo(5) = 1
    /\ NumCallsTo(7) = 1

----------------------------------------------------------------------------
(* C24: every run terminates.  Provided every call on the client returns   *)
(* or raises, each run, on every path (authentication failed, advertiser   *)
(* failed, all checks executed), reaches the end with all 7 results and    *)
(* stays there.  No step leads back to an earlier point of the run, and    *)
(* the run waits only at the seven points where one call is in flight.     *)

\* the points of a run, in program order
RunPoints ==
    <<"start", "call1", "wait1", "gate_auth", "wait2", "gate_adv", "wait3",
      "call4", "wait4", "call5", "wait5", "call6", "wait6", "call7", "wait7",
      "exit_with", "report", "done">>

Rank(p) == CHOOSE n \in DOMAIN RunPoints : RunPoints[n] = p

Waiting == {"wait1", "wait2", "wait3", "wait4", "wait5", "wait6", "wait7"}

C24_Terminates ==
    /\ <>[](Finished /\ Len(results) = 7 /\ inflight = None)
    /\ [](\E n \in DOMAIN RunPoints : RunPoints[n] = pc)
    /\ [](inflight # None <=> pc \in Waiting)
    /\ [][Rank(pc') > Rank(pc)]_vars

\* the three paths, each at its end: here the one on which the advertiser
\* check failed
C24_Witness ==
    /\ Finished
    /\ Len(results) = 7
    /\ AdvertiserFailed
    /\ results[3].status = SKIPPED
    /\ results[7].status = FAIL
    /\ inflight = None

----------------------------------------------------------------------------
(* C25: the HTTP client is scoped to the run.  It is opened before the     *)
(* first request, every request is issued and every response received      *)
(* while it is open, and it is closed once, after result 7 is recorded     *)
(* and before the verdict is produced; a closed client is never reopened   *)
(* or used, and the run ends with the client closed on each of its paths.  *)

C25_Step ==
    /\ Len(requests') # Len(requests) \/ Len(responses') # Len(responses) =>
         client = "open" /\ client' = "open"
    /\ client' # client =>
         \/ client = "unopened" /\ client' = "open" /\ Len(requests) = 0
         \/ /\ client = "open" /\ client' = "closed"
            /\ Len(results) = 7
            /\ inflight = None
            /\ overall = None /\ exit_code = None
    /\ overall' # overall \/ exit_code' # exit_code => client = "closed"

C25_ClientScoped ==
    /\ [][C25_Step]_vars
    /\ [](client = "unopened" => Len(requests) = 0)
    /\ [](client = "closed" => Len(results) = 7 /\ inflight = None)
    /\ [](Finished => client = "closed")

\* a run that skipped checks 2..6, made its two requests on the open client,
\* and has closed it before reporting
C25_Witness ==
    /\ pc = "report"
    /\ client = "closed"
    /\ NoToken
    /\ Len(requests) = 2
    /\ Len(results) = 7
    /\ overall = None

----------------------------------------------------------------------------
(* Two runs side by side.  In DuoSpec every variable holds, for each of    *)
(* the two runs, what it holds for the one run of Spec: the locals of      *)
(* main, or of run_checks, of that run and the client it created.  A step  *)
(* is a step of one of the runs; the runs take their steps in any order.   *)

Runs == {1, 2}

\* the run other than r
Other(r) == 3 - r

\* the two runs are configured for different retailers and advertisers
DuoConfig(r) ==
    [email |-> IF r = 1 THEN "bob@company.com" ELSE "eve@company.com",
     password |-> "secret",
     member_group_id |-> MemberGroupId, advertiser_id |-> AdvertiserId + (r - 1),
     client_name |-> IF r = 1 THEN "myretailer" ELSE "otherretailer",
     site_id |-> "homepage", experience_name |-> None,
     base_url |-> <<"https://", "koddi.io", "/console/v1", "/">>]

\* the outcomes of the calls of run r: each transport serves its own run, a
\* login of run 1 is answered with the token "abc", one of run 2 with "xyz"
DuoOutcomes(r, k) ==
    CASE k = 1 -> { Response(200, JsonObject(Denied)),
                    Response(200, JsonObject(Success(
                        [token |-> [id_token |-> IF r = 1 THEN "abc" ELSE "xyz"]]))) }
      [] k = 2 -> { Timeout, Response(200, JsonObject(Success(Advertiser))) }
      [] k = 3 -> { ConnectError,
                    Response(200, JsonObject(Success([total |-> 1,
                                                      campaigns |-> <<Campaign>>]))) }
      [] k = 4 -> { OtherError("boom"),
                    Response(200, JsonObject(Success([total |-> 0,
                                                      entity_registrations |-> <<>>]))) }
      [] k = 5 -> { Response(200, JsonObject(Denied)),
                    Response(200, JsonObject(Success([active_bidders |-> <<Item>>]))) }
      [] k = 6 -> { Timeout,
                    Response(200, JsonObject(Success([attributable_entities |-> <<>>]))) }
      [] k = 7 -> { Response(503, NotJson),
                    Response(200, JsonObject([sponsored_listings |-> <<Item>>])) }

\* the request check k makes in front end f, configured c, holding tok
RequestOf(f, c, tok, k) ==
    CASE k = 1 -> IF f = "cli"
                  THEN check_auth_request(c.base_url, c.email, c.password,
                                          c.member_group_id)
                  ELSE app_check_auth_request(c.base_url, c.email, c.password,
                                              c.member_group_id)
      [] k = 2 -> IF f = "cli"
                  THEN check_advertiser_request(c.base_url, tok, c.member_group_id,
                                                c.advertiser_id)
                  ELSE app_check_advertiser_request(c.base_url, tok, c.member_group_id,
                                                    c.advertiser_id)
      [] k = 3 -> IF f = "cli"
                  THEN check_campaigns_request(c.base_url, tok, c.member_group_id,
                                               c.advertiser_id)
                  ELSE app_check_campaigns_request(c.base_url, tok, c.member_group_id,
                                                   c.advertiser_id)
      [] k = 4 -> IF f = "cli"
                  THEN check_entity_failures_request(c.base_url, tok, c.member_group_id,
                                                     c.advertiser_id)
                  ELSE app_check_entity_failures_request(c.base_url, tok,
                                                         c.member_group_id,
                                                         c.advertiser_id)
      [] k = 5 -> IF f = "cli"
                  THEN check_active_bidders_request(c.base_url, tok, c.member_group_id)
                  ELSE app_check_active_bidders_request(c.base_url, tok,
                                                        c.member_group_id)
      [] k = 6 -> IF f = "cli"
                  THEN check_attributable_entities_request(c.base_url, tok,
                                                           c.member_group_id)
                  ELSE app_check_attributable_entities_request(c.base_url, tok,
                                                               c.member_group_id)
      [] k = 7 -> IF f = "cli"
                  THEN check_winning_ads_request(c.client_name, c.site_id,
                                                 c.experience_name)
                  ELSE app_check_winning_ads_request(c.client_name, c.site_id,
                                                     c.experience_name)

\* the point where check k is called, where it waits, and where the run goes on
CallPoint == <<"call1", "gate_auth", "gate_adv", "call4", "call5", "call6", "call7">>
WaitPoint == <<"wait1", "wait2", "wait3", "wait4", "wait5", "wait6", "wait7">>
NextPoint == <<"gate_auth", "gate_adv", "call4", "call5", "call6", "call7", "exit_with">>

DuoInit ==
    /\ front \in [Runs -> {"cli", "web"}]
    /\ cfg = [r \in Runs |-> DuoConfig(r)]
    /\ pc = [r \in Runs |-> "start"]
    /\ client = [r \in Runs |-> "unopened"]
    /\ results = [r \in Runs |-> <<>>]
    /\ token = [r \in Runs |-> None]
    /\ has_failure = [r \in Runs |-> FALSE]
    /\ requests = [r \in Runs |-> <<>>]
    /\ inflight = [r \in Runs |-> None]
    /\ responses = [r \in Runs |-> <<>>]
    /\ overall = [r \in Runs |-> None]
    /\ exit_code = [r \in Runs |-> None]

\* mutant: the token is kept in a module-level variable, which every run reads
StoreToken_shared(r, tok) == token' = [q \in Runs |-> tok]

\* `auth_result, token = check_auth(...)`: token is a local of the run
StoreToken(r, tok) == token' = [token EXCEPT ![r] = tok]

DuoStart(r) ==
    /\ pc[r] = "start"
    /\ cfg' = [cfg EXCEPT ![r].base_url = rstrip(@)]
    /\ client' = [client EXCEPT ![r] = "open"]
    /\ pc' = [pc EXCEPT ![r] = "call1"]
    /\ UNCHANGED <<front, results, token, has_failure, requests, inflight,
                   responses, overall, exit_code>>

\* run r calls check k: Check 2 only with a token, Check 3 only when the
\* advertiser check has not failed
DuoCall(r, k) ==
    /\ pc[r] = CallPoint[k]
    /\ k = 2 => token[r] # None
    /\ k = 3 => results[r][Len(results[r])].status # FAIL
    /\ requests' = [requests EXCEPT ![r] =
                      Append(@, [check |-> k,
                                 request |-> RequestOf(front[r], cfg[r], token[r], k)])]
    /\ inflight' = [inflight EXCEPT ![r] = Some(k)]
    /\ pc' = [pc EXCEPT ![r] = WaitPoint[k]]
    /\ UNCHANGED <<front, cfg, client, results, token, has_failure, responses,
                   overall, exit_code>>

\* the call of check k of run r returns or raises, its result is appended
DuoReturn(r, k) ==
    /\ pc[r] = WaitPoint[k]
    /\ \E o \in DuoOutcomes(r, k) :
         LET res == Classify(front[r], k, cfg[r].client_name, o)
         IN  /\ responses' = [responses EXCEPT ![r] =
                                Append(@, [check |-> k, outcome |-> o])]
             /\ results' = [results EXCEPT ![r] = Append(@, res)]
             /\ IF k = 1
                THEN StoreToken(r, IF front[r] = "cli" THEN check_auth(o)[2]
                                   ELSE app_check_auth(o)[2])
                ELSE UNCHANGED token
             /\ has_failure' = [has_failure EXCEPT ![r] =
                                  IF k # 2 /\ front[r] = "cli" /\ res.status = FAIL
                                  THEN TRUE ELSE @]
    /\ inflight' = [inflight EXCEPT ![r] = None]
    /\ pc' = [pc EXCEPT ![r] = NextPoint[k]]
    /\ UNCHANGED <<front, cfg, client, requests, overall, exit_code>>

DuoSkipAuthDependent(r) ==
    /\ pc[r] = "gate_auth"
    /\ token[r] = None
    /\ results' = [results EXCEPT ![r] =
                     @ \o SkippedResults(auth_dependent,
                                         <<"Skipped -- ", "authentication failed">>)]
    /\ pc' = [pc EXCEPT ![r] = "call7"]
    /\ UNCHANGED <<front, cfg, client, token, has_failure, requests, inflight,
                   responses, overall, exit_code>>

DuoSkipAdvertiserDependent(r) ==
    /\ pc[r] = "gate_adv"
    /\ results[r][Len(results[r])].status = FAIL
    /\ has_failure' = [has_failure EXCEPT ![r] = IF front[r] = "cli" THEN TRUE ELSE @]
    /\ results' = [results EXCEPT ![r] =
                     @ \o SkippedResults(SubSeq(auth_dependent, 2, 3),
                                         <<"Skipped -- ", "advertiser check failed">>)]
    /\ pc' = [pc EXCEPT ![r] = "call5"]
    /\ UNCHANGED <<front, cfg, client, token, requests, inflight, responses,
                   overall, exit_code>>

DuoExitWith(r) ==
    /\ pc[r] = "exit_with"
    /\ client' = [client EXCEPT ![r] = "closed"]
    /\ pc' = [pc EXCEPT ![r] = "report"]
    /\ UNCHANGED <<front, cfg, results, token, has_failure, requests, inflight,
                   responses, overall, exit_code>>

\* the verdict of run r: the JSON document of its front end, and the exit
\* code of the command line
DuoReport(r) ==
    /\ pc[r] = "report"
    /\ overall' = [overall EXCEPT ![r] =
                     Some(IF front[r] = "cli" THEN results_to_json(results[r]).overall
                          ELSE app_json_output(results[r]).overall)]
    /\ exit_code' = [exit_code EXCEPT ![r] =
                       IF front[r] = "cli"
                       THEN Some(IF has_failure[r] THEN 1 ELSE 0) ELSE @]
    /\ pc' = [pc EXCEPT ![r] = "done"]
    /\ UNCHANGED <<front, cfg, client, results, token, has_failure, requests,
                   inflight, responses>>

DuoNext ==
    \E r \in Runs :
      \/ DuoStart(r)
      \/ \E k \in 1..7 : DuoCall(r, k)
      \/ \E k \in 1..7 : DuoReturn(r, k)
      \/ DuoSkipAuthDependent(r)
      \/ DuoSkipAdvertiserDependent(r)
      \/ DuoExitWith(r)
      \/ DuoReport(r)

DuoSpec == DuoInit /\ [][DuoNext]_vars

(* C26: runs share no mutable state.  When two runs, each with its own     *)
(* configuration and transport, take their steps in any order, each step   *)
(* changes the state of one run only, every Authorization header of a run  *)
(* carries the id_token of that run's own login response, and each run     *)
(* ends with the result list and the verdict that the run produces alone   *)
(* on the responses it received.                                           *)

\* the results of a run of front end f for the retailer client_name, alone,
\* whose calls have the outcomes outs, in the order of the calls
Alone(f, client_name, outs) ==
    LET r1 == Classify(f, 1, client_name, outs[1])
        tok == IF f = "cli" THEN check_auth(outs[1])[2] ELSE app_check_auth(outs[1])[2]
        r2 == Classify(f, 2, client_name, outs[2])
    IN  IF tok = None
        THEN <<r1>>
             \o SkippedResults(auth_dependent, <<"Skipped -- ", "authentication failed">>)
             \o <<Classify(f, 7, client_name, outs[2])>>
        ELSE IF r2.status = FAIL
        THEN <<r1, r2>>
             \o SkippedResults(SubSeq(auth_dependent, 2, 3),
                               <<"Skipped -- ", "advertiser check failed">>)
             \o [i \in 1..3 |-> Classify(f, i + 4, client_name, outs[i + 2])]
        ELSE [i \in 1..7 |-> Classify(f, i, client_name, outs[i])]

AloneVerdict(rs) == IF \E i \in DOMAIN rs : rs[i].status = FAIL THEN "fail" ELSE "pass"

\* the outcomes run r has received, in order
Received(r) == [i \in DOMAIN responses[r] |-> responses[r][i].outcome]

\* the state of run r is the same before and after the step
RunUntouched(r) ==
    /\ front'[r] = front[r] /\ cfg'[r] = cfg[r] /\ pc'[r] = pc[r]
    /\ client'[r] = client[r] /\ results'[r] = results[r] /\ token'[r] = token[r]
    /\ has_failure'[r] = has_failure[r] /\ requests'[r] = requests[r]
    /\ inflight'[r] = inflight[r] /\ responses'[r] = responses[r]
    /\ overall'[r] = overall[r] /\ exit_code'[r] = exit_code[r]

C26_RunsIsolated ==
    /\ [][\E r \in Runs : RunUntouched(r)]_vars
    /\ [](\A r \in Runs : \A i \in DOMAIN requests[r] :
            "Authorization" \in DOMAIN requests[r][i].request.headers =>
              /\ Len(responses[r]) >= 1
              /\ Some(requests[r][i].request.headers["Authorization"])
                   = IdToken(responses[r][1].outcome))
    /\ [](\A r \in Runs :
            pc[r] = "done" =>
              /\ results[r] = Alone(front[r], cfg[r].client_name, Received(r))
              /\ overall[r] = Some(AloneVerdict(results[r])))

\* both runs are done: run 1 got its token and executed every check, run 2
\* was denied, skipped checks 2..6 and made two requests
C26_Witness ==
    /\ pc = [r \in Runs |-> "done"]
    /\ token[1] = Some("abc")
    /\ token[2] = None
    /\ Len(requests[1]) = 7
    /\ Len(requests[2]) = 2
    /\ results[2][2].status = SKIPPED
    /\ results[1][2].status = PASS

----------------------------------------------------------------------------
(* C27: the number of HTTP requests of a run.  At every step the requests  *)
(* issued are one per result that is not Skipped, plus the one in flight.  *)
(* A completed run has issued 7 minus the number of its Skipped results:   *)
(* exactly 2 when Check 1 yielded no token, exactly 5 when a token was     *)
(* obtained and Check 2 failed, exactly 7 otherwise.                       *)

NotSkipped == { i \in DOMAIN results : results[i].status # SKIPPED }

C27_RequestCount ==
    /\ Len(requests) = Cardinality(NotSkipped) + Len(inflight)
    /\ Finished =>
         /\ Len(requests) = 7 - Cardinality(SkippedResultsAt)
         /\ Len(requests) = IF token = None THEN 2
                            ELSE IF results[2].status = FAIL THEN 5
                            ELSE 7
         /\ \A k \in 1..7 : NumCallsTo(k) = IF results[k].status = SKIPPED THEN 0 ELSE 1

\* a completed run of the web front end with a token and a failed
\* advertiser check: five requests
C27_Witness ==
    /\ Finished
    /\ front = "web"
    /\ token # None
    /\ results[2].status = FAIL
    /\ Len(requests) = 5
    /\ Cardinality(SkippedResultsAt) = 2

----------------------------------------------------------------------------
(* C28: the two front ends implement the same orchestrator.  At every      *)
(* step of a run of one front end, every request issued is the request     *)
(* the other front end makes for that check with the same configuration    *)
(* and token (same method, URL, headers and body), every result has the    *)
(* number, name and status the other front end's check gives for the same  *)
(* outcome, the login yields the same token, and the verdict on the        *)
(* results is the same.                                                    *)

OtherFront(f) == IF f = "cli" THEN "web" ELSE "cli"

\* the requests issued so far are those of the other front end
SameRequests ==
    \A i \in DOMAIN requests :
      requests[i].request = RequestOf(OtherFront(front), cfg, token, requests[i].check)

\* the results recorded so far for executed checks are, in number, name and
\* status, those of the other front end, and so is the token
SameResults ==
    \A i \in DOMAIN responses :
      LET k == responses[i].check
          o == responses[i].outcome
          theirs == Classify(OtherFront(front), k, cfg.client_name, o)
      IN  /\ ResultsOf(k) # {}
          /\ \A j \in ResultsOf(k) :
               /\ results[j].number = theirs.number
               /\ results[j].name = theirs.name
               /\ results[j].status = theirs.status
          /\ k = 1 => /\ check_auth(o)[2] = app_check_auth(o)[2]
                      /\ token = check_auth(o)[2]

SameVerdict == results_to_json(results).overall = app_json_output(results).overall

C28_FrontEndsAgree == SameRequests /\ SameResults /\ SameVerdict

\* what holds of the code: the front ends agree in every run whose
\* experience_name is absent or not empty
C28_AgreeUnlessEmptyExperience ==
    cfg.experience_name # Some("") => C28_FrontEndsAgree

----------------------------------------------------------------------------
(* C29: the status range of each check.  An executed Check 1, 2 or 7 gives *)
(* Pass or Fail, an executed Check 3..6 Pass, Warn or Fail; Skipped occurs *)
(* only in results 2..6 and only for checks that were not called.  So      *)
(* result 1 is Fail exactly when no token is held, and for an executed     *)
(* Check 2 "is Fail" and "did not pass" are the same condition, which is   *)
(* the one that decides whether checks 3 and 4 are called.                 *)

\* every check that was called gave a status of its range
ExecutedRanges ==
    \A i \in DOMAIN responses :
      LET k == responses[i].check
      IN  /\ ResultsOf(k) # {}
          /\ \A j \in ResultsOf(k) :
               results[j].status \in (IF k \in {1, 2, 7} THEN {PASS, FAIL}
                                      ELSE {PASS, WARN, FAIL})

C29_StatusRanges ==
    /\ ExecutedRanges
    /\ \A i \in DOMAIN results :
         /\ results[i].number \in {1, 7} => results[i].status \in {PASS, FAIL}
         /\ results[i].number = 2 => results[i].status # WARN
         /\ results[i].status = WARN => results[i].number \in 3..6
         /\ results[i].status = SKIPPED =>
              /\ results[i].number \in 2..6
              /\ NumCallsTo(results[i].number) = 0
    /\ Len(results) >= 1 => (results[1].status = FAIL <=> token = None)
    /\ Len(results) >= 2 /\ token # None =>
         /\ results[2].status = FAIL <=> results[2].status # PASS
         /\ pc \notin {"wait2", "gate_adv"} =>
              (results[2].status = PASS <=> NumCallsTo(3) = 1)
         /\ Finished => (results[2].status = PASS <=> NumCallsTo(4) = 1)

\* a completed run with a Warn among results 3..6, a passed Check 2 and a
\* failed Check 7
C29_Witness ==
    /\ Finished
    /\ results[1].status = PASS
    /\ results[2].status = PASS
    /\ results[4].status = WARN
    /\ results[7].status = FAIL
    /\ SkippedResultsAt = {}

----------------------------------------------------------------------------
(* C30: checks 1..6 classify by the body alone.  The result (and, for      *)
(* Check 1, the token) for a response with any status code is the one for  *)
(* the same body with status code 200, so a non-200 response whose body    *)
(* is a success envelope passes, and a non-200 login with an id_token      *)
(* yields the token.  Check 7 tests the status code before it reads the    *)
(* body: for a code other than 200 it is Fail "HTTP {code} ...", not       *)
(* "Unexpected error", also when the body is not JSON.                     *)

\* the recorded calls that returned a response
Responded == { i \in DOMAIN responses : responses[i].outcome.exc = "none" }

C30_StatusCodeRule ==
    \A i \in Responded :
      LET k == responses[i].check
          o == responses[i].outcome
          same_body_200 == Response(200, o.body)
      IN  /\ ResultsOf(k) # {}
          /\ \A j \in ResultsOf(k) :
               /\ k \in 1..6 =>
                    results[j] = Classify(front, k, cfg.client_name, same_body_200)
               /\ k \in 1..6 /\ SuccessEnvelope(o) /\ results[j].status = FAIL =>
                    k = 1 /\ IdToken(o) \in {None, Some("")}
               /\ k = 1 =>
                    token = IF front = "cli" THEN check_auth(same_body_200)[2]
                            ELSE app_check_auth(same_body_200)[2]
               /\ k = 7 /\ o.status_code # 200 =>
                    /\ HttpFail(results[j], o.status_code)
                    /\ results[j].details[1] # "Unexpected error: "

\* a login answered with status code 503 and a success envelope with a
\* token: Pass, and the token is carried
C30_Witness ==
    /\ pc = "checked"
    /\ Responded = {1}
    /\ responses[1].check = 1
    /\ responses[1].outcome.status_code = 503
    /\ IdToken(responses[1].outcome) = Some("abc")
    /\ results[1].status = PASS
    /\ token = Some("abc")

====
